---- MODULE Spec2Model ----
(***************************************************************************)
(* fsv - 3D File System Visualizer: animation scheduler (animation.c),     *)
(* collapse/expand controller (colexp.c) and the parts of the directory    *)
(* tree, camera and geometry modules they drive.                           *)
(*                                                                         *)
(* Numbers.  Times are integers counting sixteenths of a second (all the   *)
(* durations used are multiples of 0.0625 s).  Morphed values are          *)
(* fixed-point integers, One standing for 1.0; a product is truncated     *)
(* toward zero.  EPSILON (1.0e-6) is smaller than the fixed-point          *)
(* resolution, so it is the smallest positive fixed-point quantity, Eps.   *)
(***************************************************************************)
EXTENDS Integers, Sequences, FiniteSets, TLC

\* ------------------------------------------------------------------ bounds
MaxTime == 6
MaxClock == 18
MaxMorphs == 2
MaxEvents == 1
MaxRequests == 2

\* --------------------------------------------------------------- constants
One == 16
Eps == 1
DISCV_COLEXP_TIME == 24
MAPV_COLEXP_TIME == 6
TREEV_COLEXP_TIME == 8

NULL == "NULL"

MorphTypes == {"MORPH_LINEAR", "MORPH_QUADRATIC", "MORPH_INV_QUADRATIC",
               "MORPH_SIGMOID"}
FsvModes == {"FSV_DISCV", "FSV_MAPV", "FSV_TREEV"}
ColExpMesgs == {"COLEXP_COLLAPSE_RECURSIVE", "COLEXP_EXPAND",
                "COLEXP_EXPAND_ANY", "COLEXP_EXPAND_RECURSIVE"}

\* ------------------------------------------------------ the filesystem tree
\* metanode M -> root directory R -> A -> B -> C -> leaf f, and leaf g in R.
\* Children are kept directories-first (scanfs.c compare_node).
Metanode == "M"
Dirs == {"R", "A", "B", "C"}
Leaves == {"f", "g"}
Nodes == Dirs \cup Leaves

NodeParent ==
  [n \in Nodes |->
     CASE n = "R" -> Metanode
       [] n = "A" -> "R"
       [] n = "B" -> "A"
       [] n = "C" -> "B"
       [] n = "f" -> "C"
       [] n = "g" -> "R"]

NodeChildren ==
  [n \in Nodes \cup {Metanode} |->
     CASE n = Metanode -> <<"R">>
       [] n = "R" -> <<"A", "g">>
       [] n = "A" -> <<"B">>
       [] n = "B" -> <<"C">>
       [] n = "C" -> <<"f">>
       [] OTHER -> <<>>]

NODE_IS_DIR(n) == n \in Dirs

RECURSIVE AncestorDirs(_)
\* the directories strictly above n, nearest first (n->parent, ... up to R)
AncestorDirs(n) ==
  IF n = Metanode \/ ~NODE_IS_DIR(NodeParent[n]) THEN <<>>
  ELSE <<NodeParent[n]>> \o AncestorDirs(NodeParent[n])

SeqRange(s) == {s[i] : i \in 1..Len(s)}

\* g_node_is_ancestor( a, b ): a is a strict ancestor of b
g_node_is_ancestor(a, b) == a \in SeqRange(AncestorDirs(b))

\* the leading run of directories in a child list (loops stop at the first leaf)
RECURSIVE LeadingDirs(_)
LeadingDirs(s) ==
  IF s = <<>> \/ ~NODE_IS_DIR(Head(s)) THEN <<>>
  ELSE <<Head(s)>> \o LeadingDirs(Tail(s))

\* -------------------------------------------------------------- variables
CamVars == {"theta", "distance", "target", "pan_part"}
TestVars == {"t", "about_part"}
MorphVars == Dirs \cup CamVars \cup TestVars

VARIABLES
  now,                 \* xgettime( )
  value,               \* the doubles morphs point at: deployments, camera, test
  morph_queue,         \* list of morph records, each a chain of stages
  schevent_queue,      \* list of scheduled events
  animation_active,
  need_redraw,         \* globals.need_redraw
  fsv_mode,            \* globals.fsv_mode
  ctree_expanded,      \* GTK_CTREE_ROW(ctnode)->expanded per directory
  current_node,        \* globals.current_node
  manual_control,      \* camera->manual_control
  camera_currently_moving,
  scrollbars_colexp_adjust,
  history,             \* globals.history
  access,              \* sensitivity of the switchable widgets
  fstree_low_draw_stage,   \* geometry.c: draw stage of the low-detail list
  fstree_high_draw_stage,  \* geometry.c: draw stage of the high-detail list
  need_rearrange,      \* TREEV_NEED_REARRANGE in the flags of the root
  treev,               \* geometry.c: the TreeV layout of a wide tree
  mapv,                \* geometry.c: the MapV layout of a directory
  obs                  \* observations: callback counts and the last operation

vars == <<now, value, morph_queue, schevent_queue, animation_active,
          need_redraw, fsv_mode, ctree_expanded, current_node, manual_control,
          camera_currently_moving, scrollbars_colexp_adjust, history, access,
          fstree_low_draw_stage, fstree_high_draw_stage, need_rearrange,
          treev, mapv, obs>>

\* The program state as one record, so that C call sequences compose.
Cur ==
  [now |-> now, value |-> value, morph_queue |-> morph_queue,
   schevent_queue |-> schevent_queue, animation_active |-> animation_active,
   need_redraw |-> need_redraw, fsv_mode |-> fsv_mode,
   ctree_expanded |-> ctree_expanded, current_node |-> current_node,
   manual_control |-> manual_control,
   camera_currently_moving |-> camera_currently_moving,
   scrollbars_colexp_adjust |-> scrollbars_colexp_adjust,
   history |-> history, access |-> access,
   fstree_low_draw_stage |-> fstree_low_draw_stage,
   fstree_high_draw_stage |-> fstree_high_draw_stage,
   need_rearrange |-> need_rearrange, treev |-> treev, mapv |-> mapv,
   obs |-> obs,
   \* locals and function statics that do not outlive a handler
   depth |-> 0, max_depth |-> 0, colexp_time |-> 0, swing |-> FALSE,
   look_time |-> 1, resized |-> FALSE]

Become(s) ==
  /\ now' = s.now
  /\ value' = s.value
  /\ morph_queue' = s.morph_queue
  /\ schevent_queue' = s.schevent_queue
  /\ animation_active' = s.animation_active
  /\ need_redraw' = s.need_redraw
  /\ fsv_mode' = s.fsv_mode
  /\ ctree_expanded' = s.ctree_expanded
  /\ current_node' = s.current_node
  /\ manual_control' = s.manual_control
  /\ camera_currently_moving' = s.camera_currently_moving
  /\ scrollbars_colexp_adjust' = s.scrollbars_colexp_adjust
  /\ history' = s.history
  /\ access' = s.access
  /\ fstree_low_draw_stage' = s.fstree_low_draw_stage
  /\ fstree_high_draw_stage' = s.fstree_high_draw_stage
  /\ need_rearrange' = s.need_rearrange
  /\ treev' = s.treev
  /\ mapv' = s.mapv
  /\ obs' = s.obs

\* ------------------------------------------------------------ observations
\* end_calls: how often test_end_cb ran, per morph payload; stepped: the
\* payloads test_step_cb ran for;
\* broken: payloads of the stages discarded by morph_break (a payload leaves
\* stepped when its stage is discarded);
\* ev_calls: how often each test event ran; ev_late: a test event ran in a
\* tick other than the one its frame count names;
\* mesgs: the kinds of collapse/expand request made so far; initiated: the
\* geometry_colexp_initiated notifications of the last request, in order;
\* handler: the last user interface handler run and the node it was run on;
\* npans: the pan requests made so far (every stage notes the count at its
\* request in its field pan); superseded_end: the end callback of a pan ran
\* after a later pan request;
\* since_stale: the draws, and the high-detail draws among them, since the
\* draw stages were last zeroed, each counted up to 3; last_draw: what the last draw did for the low-detail and for the
\* high-detail geometry ("uncached" or "captured" recursive draw, "replayed"
\* list, "none");
\* tick_vars: the variables queued when the last tick began; unadvanced: those
\* of them morph_iteration( ) has not visited yet; tick_fired: a scheduled
\* event ran in the last tick; ev_early: a scheduled event ran while a
\* variable queued at the start of its tick was still to be visited;
\* finished: the variables morph_finish( ) was called on, while they were
\* morphing, since the last tick; rearmed: the morphs requested on such a
\* variable, each with the time now + duration of its request;
\* look_before: <<current node, history, node>> for the last camera_look_at(
\* node ) of a handler, current node and history as they were before it,
\* while nothing else has looked since; undone: the look_before that the
\* last handler, on_back_button_clicked, went back on;
\* dirty: a stale flag was raised on a directory, or the deployment of a
\* directory changed, since the low-detail and since the high-detail
\* aggregate list was captured;
\* percent_out: morph_iteration( ) updated a running stage with percent
\* below 0 or not below 1;
\* colexp_assert_failed, look_assert_failed: the g_assert of colexp( ) on the
\* ancestors, or of camera_look_at_full( ) on the parent, would have aborted
\* a DEBUG build.
MorphIdSeq == <<"m1", "m2", "m3", "m4", "m5">>
EventIdSeq == <<"e1", "e2", "e3", "e4">>
MorphIds == SeqRange(MorphIdSeq)
EventIds == SeqRange(EventIdSeq)

ObsInit ==
  [end_calls |-> [i \in MorphIds |-> 0],
   stepped |-> {},
   broken |-> {},
   ev_calls |-> [i \in EventIds |-> 0],
   ev_late |-> FALSE,
   colexp_assert_failed |-> FALSE,
   look_assert_failed |-> FALSE,
   mesgs |-> {},
   initiated |-> <<>>,
   handler |-> <<>>,
   npans |-> 0,
   superseded_end |-> FALSE,
   since_stale |-> <<3, 3>>,
   last_draw |-> <<"replayed", "replayed">>,
   tick_vars |-> {}, unadvanced |-> {}, tick_fired |-> FALSE,
   ev_early |-> FALSE,
   finished |-> {}, rearmed |-> {}, percent_out |-> FALSE,
   look_before |-> <<>>, undone |-> <<>>,
   dirty |-> <<FALSE, FALSE>>,
   nmorphs |-> 0, nevents |-> 0, nrequests |-> 0]



\* ===================================================== animation.c: requests
\* redraw( ): the official means of requesting a redraw
redraw(s) == [s EXCEPT !.animation_active = TRUE, !.need_redraw = TRUE]

\* schedule_event( event_cb, data, nframes ).  n0 and seen are observation
\* fields: the frame count asked for and the ticks gone by since.
schedule_event(s, event_cb, data, nframes) ==
  LET new_schevent == [nframes |-> nframes, event_cb |-> event_cb,
                       data |-> data, n0 |-> nframes, seen |-> 0]
      s1 == IF ~s.animation_active THEN redraw(s) ELSE s
  IN [s1 EXCEPT !.schevent_queue = <<new_schevent>> \o @]

\* g_list_find_custom( morph_queue, m, compare_var ): index of the first
\* record on the variable, 0 if there is none
find_var(q, var) ==
  IF \E i \in 1..Len(q) : q[i][1].var = var
  THEN CHOOSE i \in 1..Len(q) :
         /\ q[i][1].var = var
         /\ \A j \in 1..(i - 1) : q[j][1].var # var
  ELSE 0

\* last_morph_stage( m )
last_morph_stage(chain) == chain[Len(chain)]

RemoveAt(q, i) == SubSeq(q, 1, i - 1) \o SubSeq(q, i + 1, Len(q))

\* the element of a set of one element
Only(S) == CHOOSE x \in S : TRUE

\* the chain of a morph_full( ) request on a variable that is already morphing
chain_append_AsAtRequest(chain, new_morph) ==
  Append(chain, [new_morph EXCEPT !.after = last_morph_stage(chain).data])

chain_append(chain, new_morph) ==
  LET mlast == last_morph_stage(chain)
  IN Append(chain,
            [new_morph EXCEPT
               !.t_start = mlast.t_end,
               !.t_end = mlast.t_end + (new_morph.t_end - new_morph.t_start),
               !.start_value = mlast.end_value,
               !.after = mlast.data])

\* morph_full( ) that never calls redraw( )
morph_full_NoRedraw(s, var, type, target_value, duration, step_cb, end_cb, data) ==
  LET new_morph == [type |-> type, var |-> var,
                    start_value |-> s.value[var], end_value |-> target_value,
                    t_start |-> s.now, t_end |-> s.now + duration,
                    step_cb |-> step_cb, end_cb |-> end_cb, data |-> data,
                    after |-> NULL, pan |-> s.obs.npans]
      i == find_var(s.morph_queue, var)
  IN IF i = 0
     THEN [s EXCEPT !.morph_queue = <<(<<new_morph>>)>> \o @]
     ELSE [s EXCEPT !.morph_queue[i] = chain_append(@, new_morph)]

\* morph_full( var, type, target_value, duration, step_cb, end_cb, data ).
\* The fields after and pan are observations: the payload of the stage this
\* one was chained to (NULL for a first stage), and the number of pan requests
\* made before the call.
morph_full(s, var, type, target_value, duration, step_cb, end_cb, data) ==
  LET t_now == s.now
      new_morph == [type |-> type, var |-> var,
                    start_value |-> s.value[var], end_value |-> target_value,
                    t_start |-> t_now, t_end |-> t_now + duration,
                    step_cb |-> step_cb, end_cb |-> end_cb, data |-> data,
                    after |-> NULL, pan |-> s.obs.npans]
      i == find_var(s.morph_queue, var)
  IN IF i = 0
     THEN LET s1 == IF ~s.animation_active THEN redraw(s) ELSE s
          IN [s1 EXCEPT !.morph_queue = <<(<<new_morph>>)>> \o @]
     ELSE [s EXCEPT !.morph_queue[i] = chain_append(@, new_morph),
                    !.obs.rearmed =
                      IF var \in s.obs.finished
                      THEN @ \cup {[var |-> var, data |-> data,
                                    due |-> t_now + duration]}
                      ELSE @]

\* morph( var, type, target_value, duration )
morph(s, var, type, target_value, duration) ==
  morph_full(s, var, type, target_value, duration, NULL, NULL, NULL)

\* morph_finish( var )
morph_finish(s, var) ==
  LET i == find_var(s.morph_queue, var)
  IN IF i = 0 THEN s
     ELSE [s EXCEPT !.morph_queue[i][1].t_end = 0,
                    !.obs.finished = @ \cup {var},
                    !.obs.rearmed = {r \in @ : r.var # var}]

\* morph_break( var ) that frees only the first stage
morph_break_FirstStageOnly(s, var) ==
  LET i == find_var(s.morph_queue, var)
  IN IF i = 0 THEN s
     ELSE IF Len(s.morph_queue[i]) > 1
          THEN [s EXCEPT !.morph_queue[i] = Tail(@)]
          ELSE [s EXCEPT !.morph_queue = RemoveAt(@, i)]

\* morph_break( var )
morph_break(s, var) ==
  LET i == find_var(s.morph_queue, var)
  IN IF i = 0 THEN s
     ELSE [s EXCEPT !.morph_queue = RemoveAt(@, i),
                    !.obs.finished = @ \ {var},
                    !.obs.rearmed = {r \in @ : r.var # var}]


\* ================================================================ camera.c
\* Each camera variable stands for the variables camera.c treats alike:
\* theta for theta and phi; distance for distance, near_clip and far_clip;
\* target for the target coordinates of the mode; pan_part is the master.
\* The camera state wanted for a node comes from its geometry: a number per
\* node here, and ApogeeDistance for the swing-back apogee.
NodeIdx ==
  [n \in Nodes |->
     CASE n = "R" -> 1 [] n = "A" -> 2 [] n = "B" -> 3
       [] n = "C" -> 4 [] n = "f" -> 5 [] n = "g" -> 6]

ApogeeDistance == 8

\* camera_pan_finish( ): morph_finish on every variable of the camera
camera_pan_finish(s) ==
  morph_finish(morph_finish(morph_finish(morph_finish(s, "theta"),
                                         "distance"), "pan_part"), "target")

\* camera_pan_break( ) that leaves the master morph alone
camera_pan_break_ViewOnly(s) ==
  morph_break(morph_break(morph_break(s, "theta"), "distance"), "target")

\* camera_pan_break( ): morph_break on every variable of the camera
camera_pan_break(s) ==
  morph_break(morph_break(morph_break(morph_break(s, "theta"),
                                      "distance"), "pan_part"), "target")

\* the morphs of the viewing angles (DiscV has none)
look_at_theta(s, node, mtype, pan_time) ==
  IF s.fsv_mode = "FSV_DISCV" THEN s
  ELSE morph(s, "theta", mtype, NodeIdx[node], pan_time)

\* the morphs of the distance and the clipping planes, in two stages through
\* the apogee when mapv_look_at swings back
look_at_distance(s, node, mtype, pan_time) ==
  IF s.fsv_mode = "FSV_MAPV" /\ s.swing
  THEN morph(morph(s, "distance", mtype, ApogeeDistance, pan_time \div 2),
             "distance", mtype, NodeIdx[node], pan_time \div 2)
  ELSE morph(s, "distance", mtype, NodeIdx[node], pan_time)

\* discv_look_at / mapv_look_at / treev_look_at: start the morphs toward the
\* wanted camera state.  s.swing is mapv_look_at's swing_back judgement and
\* s.look_time the pan time computed from the travel distance; both come
\* from geometry and are inputs of the handler.
mode_look_at(s, node, mtype, pan_time) ==
  morph(look_at_distance(look_at_theta(s, node, mtype, pan_time),
                         node, mtype, pan_time),
        "target", mtype, NodeIdx[node], pan_time)

\* the history update, were the marker of a backtrack left in the list
history_update_KeepMarker(s, node) ==
  IF s.history # <<>> /\ Head(s.history) = NULL
  THEN s.history
  ELSE IF node # s.current_node
          /\ (s.history = <<>> \/ s.current_node # Head(s.history))
  THEN <<s.current_node>> \o s.history
  ELSE s.history

\* the history update of camera_look_at_full( )
history_update(s, node) ==
  LET backtracking == s.history # <<>> /\ Head(s.history) = NULL
      prev_node == IF s.history # <<>> THEN Head(s.history) ELSE NULL
      h1 == IF backtracking THEN Tail(s.history) ELSE s.history
  IN IF ~backtracking /\ node # s.current_node /\ s.current_node # prev_node
     THEN <<s.current_node>> \o h1
     ELSE h1

\* camera_look_at_full( ): the DEBUG assertion on the parent of the node
look_at_assert(s, node) ==
  IF NODE_IS_DIR(NodeParent[node]) /\ ~s.ctree_expanded[NodeParent[node]]
  THEN [s EXCEPT !.obs.look_assert_failed = TRUE]
  ELSE s

\* camera_look_at_full( ): the pan of the mode and the master morph
look_at_pan(s, node, mtype, pan_time) ==
  morph_full([mode_look_at(s, node, mtype, pan_time)
                EXCEPT !.value["pan_part"] = 0],
             "pan_part", "MORPH_LINEAR", One, pan_time,
             "pan_step_cb", "pan_end_cb", node)

\* camera_look_at_full( node, mtype, pan_time_override )
camera_look_at_full(s, node, mtype, pan_time_override) ==
  [Only({look_at_pan(s1, node, mtype,
                     IF pan_time_override > 0 THEN pan_time_override
                     ELSE s.look_time) :
           s1 \in {camera_pan_break([look_at_assert(s, node)
                                      EXCEPT !.access = FALSE,
                                             !.obs.npans = @ + 1])}})
     EXCEPT !.history = history_update(s, node),
            !.current_node = node,
            !.manual_control = FALSE,
            !.camera_currently_moving = TRUE]

\* camera_treev_lpan_look_at( ): the morphs of stage 1 and the master morph,
\* whose payload passes along the node and the pan time
lpan_stage1(s, node, pan_time) ==
  morph_full(
    [morph(morph(s, "theta", "MORPH_INV_QUADRATIC", NodeIdx[node], pan_time),
           "target", "MORPH_INV_QUADRATIC", NodeIdx[node], pan_time)
       EXCEPT !.value["pan_part"] = 0],
    "pan_part", "MORPH_LINEAR", One, pan_time,
    "pan_step_cb", "lpan_stage1_end_cb", <<node, pan_time>>)

\* camera_treev_lpan_look_at( node, pan_time_override ), always called with
\* an override
camera_treev_lpan_look_at(s, node, pan_time_override) ==
  [Only({lpan_stage1(s1, node, pan_time_override) :
           s1 \in {camera_pan_break([s EXCEPT !.access = FALSE,
                                              !.obs.npans = @ + 1])}})
     EXCEPT !.manual_control = FALSE,
            !.camera_currently_moving = TRUE]

\* initial_camera_pan( mesg ) of fsv.c, for a change of mode ("") or a new
\* file system ("new_fs")
initial_camera_pan(s, mesg) ==
  Only({IF mesg = "new_fs"
        THEN camera_look_at_full(s1, "R", "MORPH_SIGMOID", 4 * One)
        ELSE IF s1.fsv_mode = "FSV_TREEV"
             THEN camera_treev_lpan_look_at(s1, s1.current_node, One)
             ELSE camera_look_at_full(s1, s1.current_node,
                                      "MORPH_INV_QUADRATIC", One) :
          s1 \in {[s EXCEPT !.history = <<NULL>> \o @]}})

\* ================================================= geometry.c: draw stages
\* queue_uncached_draw( ) that zeroes the low-detail stage only
queue_uncached_draw_LowOnly(s) ==
  [s EXCEPT !.fstree_low_draw_stage = 0, !.obs.since_stale = <<0, 0>>]

\* queue_uncached_draw( )
queue_uncached_draw(s) ==
  [s EXCEPT !.fstree_low_draw_stage = 0, !.fstree_high_draw_stage = 0,
            !.obs.since_stale = <<0, 0>>]

\* geometry_queue_rebuild( dnode ); the stale flags of the display lists of
\* the directory are not part of the model
geometry_queue_rebuild(s, dnode) ==
  queue_uncached_draw([s EXCEPT !.obs.dirty = <<TRUE, TRUE>>])

\* treev_arrange( FALSE ) as treev_draw calls it, as far as the draw stages,
\* the rearrange flag and the camera go.  Without the flag nothing is
\* rearranged and no width changes; with it the widths are summed anew and
\* s.resized tells whether the core radius had to change, which reshapes
\* every platform and corrects the flight path of a moving camera.
treev_draw_arrange(s) ==
  IF ~s.need_rearrange THEN s
  ELSE IF ~s.resized THEN [s EXCEPT !.need_rearrange = FALSE]
  ELSE Only({IF s1.camera_currently_moving
             THEN camera_look_at_full(camera_pan_break(s1), s1.current_node,
                                      "MORPH_INV_QUADRATIC", -1)
             ELSE s1 :
               s1 \in {geometry_queue_rebuild(
                         [s EXCEPT !.need_rearrange = FALSE], "R")}})

\* discv_draw, mapv_draw, treev_draw: the low-detail geometry
draw_low_detail(s) ==
  IF s.fstree_low_draw_stage <= 1
  THEN [s EXCEPT !.fstree_low_draw_stage = @ + 1,
                 !.obs.dirty[1] = @ /\ s.fstree_low_draw_stage = 0,
                 !.obs.last_draw[1] = IF s.fstree_low_draw_stage = 1
                                      THEN "captured" ELSE "uncached"]
  ELSE [s EXCEPT !.obs.last_draw[1] = "replayed"]

\* discv_draw, mapv_draw, treev_draw: the high-detail geometry
draw_high_detail(s, high_detail) ==
  IF ~high_detail THEN [s EXCEPT !.obs.last_draw[2] = "none"]
  ELSE IF s.fstree_high_draw_stage <= 1
  THEN [s EXCEPT !.fstree_high_draw_stage = @ + 1,
                 !.obs.dirty[2] = @ /\ s.fstree_high_draw_stage = 0,
                 !.obs.last_draw[2] = IF s.fstree_high_draw_stage = 1
                                      THEN "captured" ELSE "uncached"]
  ELSE [s EXCEPT !.obs.last_draw[2] = "replayed"]

\* geometry_draw( high_detail ) in DiscV, MapV and TreeV mode; treev_draw
\* arranges the tree first when a draw stage is 0
geometry_draw(s, high_detail) ==
  [draw_high_detail(
     draw_low_detail(
       IF s.fsv_mode = "FSV_TREEV"
          /\ (s.fstree_low_draw_stage = 0 \/ s.fstree_high_draw_stage = 0)
       THEN treev_draw_arrange(s) ELSE s),
     high_detail)
     EXCEPT !.obs.since_stale[1] = IF @ < 3 THEN @ + 1 ELSE @,
            !.obs.since_stale[2] = IF high_detail /\ @ < 3 THEN @ + 1 ELSE @]

\* ====================================== geometry.c: the tree the TreeV layout
\* is studied on.  Lengths are in units of 128 (half a leaf node edge), arc
\* widths in thousandths of a degree, and platform.theta in halves of a
\* thousandth, so that half an arc width is a whole number.
TREEV_LEAF_NODE_EDGE == 2
TREEV_PLATFORM_SPACING_DEPTH == 16
TREEV_PLATFORM_SPACING_WIDTH == 4
TREEV_MIN_ARC_WIDTH == 90000
TREEV_MAX_ARC_WIDTH == 225000
TREEV_MIN_CORE_RADIUS == 64

\* The root directory R holds five large directories and the small
\* directory P; P holds the directory Q and a file, Q the directory T and a
\* file, and T one file.  The files of the large directories are not listed
\* one by one: NumChildren is g_list_length( dnode->children ).
TvLarge == {"D1", "D2", "D3", "D4", "D5"}

TvSmall == {"P", "Q", "T"}

TvDirs == {"R"} \cup TvLarge \cup TvSmall

TvChildren ==
  [n \in TvDirs \cup {Metanode} |->
     CASE n = Metanode -> <<"R">>
       [] n = "R" -> <<"D1", "D2", "D3", "D4", "D5", "P">>
       [] n = "P" -> <<"Q", "p">>
       [] n = "Q" -> <<"T", "q">>
       [] OTHER -> <<>>]

NumChildren ==
  [d \in TvDirs |->
     CASE d = "R" -> 6
       [] d \in {"P", "Q"} -> 2
       [] d = "T" -> 1
       [] OTHER -> 45000]

TvParent ==
  [d \in TvDirs |->
     CASE d = "R" -> Metanode
       [] d = "Q" -> "P"
       [] d = "T" -> "Q"
       [] OTHER -> "R"]

\* the leading run of directories in the child list of a node
TvSubdirs(n) ==
  LET kids == TvChildren[n]
  IN SubSeq(kids, 1, Cardinality({i \in 1..Len(kids) : kids[i] \in TvDirs}))

\* The TreeV state before treev_init( ): only the root directory is expanded
\* in the directory tree.  flags holds the nodes with TREEV_NEED_REARRANGE.
\* processed, resized and last_op are observations: the nodes whose children
\* the last treev_arrange( ) spread, whether it changed the core radius, and
\* the last operation ("init", "colexp", "tick" or "draw"); ncolexp counts
\* the collapse/expand requests.  drawn holds the directories the last
\* treev_draw( ) built, and built[d] describes the rows treev_build_dir( d )
\* laid: their number, the nodes placed in them, the
\* rows left without a node and the rows holding more than their capacity.
\* shaped_r0[d] is the inner radius treev_reshape_platform( d ) was called
\* with, as long as the platform is as that call left it, and 0 otherwise.
TreevBlank ==
  [treev_core_radius |-> TREEV_MIN_CORE_RADIUS,
   expanded |-> [d \in TvDirs |-> d = "R"],
   deployment |-> [d \in TvDirs |-> 0],
   gparams |-> [n \in TvDirs \cup {Metanode} |->
                  [theta |-> 0, depth |-> 0, arc_width |-> 0,
                   subtree_arc_width |-> 0]],
   flags |-> {},
   a_dlist_stale |-> {},
   geom_expanded |-> {},
   built |-> [d \in TvDirs |-> [rows |-> 0, laid |-> 0, empty |-> 0,
                                over |-> 0]],
   drawn |-> {},
   shaped_r0 |-> [d \in TvDirs |-> 0],
   processed |-> {}, resized |-> FALSE, last_op |-> "none", ncolexp |-> 0]

\* The MapV layout before mapv_init( ): the size of the root directory, the
\* sizes of the files in it in the order of the child list, and the corners
\* c0 and c1 mapv_init_recursive( ) gave them.
MapvBlank == [dir_size |-> 0, sizes |-> <<>>, geom |-> <<>>]

\* =================================================== callbacks of the morphs
\* colexp_progress_cb, pan_step_cb, pan_end_cb, lpan_stage1_end_cb, and the
\* callbacks of the test
\* client, which count their calls per payload.
run_morph_cb(s, cb, m) ==
  CASE cb = "test_step_cb" ->
         [s EXCEPT !.obs.stepped = @ \cup {m.data}]
    [] cb = "test_end_cb" ->
         [s EXCEPT !.obs.end_calls[m.data] = @ + 1]
    [] cb = "colexp_progress_cb" ->
         [queue_uncached_draw(
            [s EXCEPT !.obs.dirty = IF s.fsv_mode = "FSV_TREEV"
                                    THEN <<TRUE, TRUE>> ELSE @])
            EXCEPT !.need_redraw = TRUE,
                   !.need_rearrange = @ \/ (s.fsv_mode = "FSV_TREEV")]
    [] cb = "pan_step_cb" ->
         [s EXCEPT !.need_redraw = TRUE]
    [] cb = "pan_end_cb" ->
         [schedule_event([s EXCEPT !.need_redraw = TRUE],
                         "post_pan_end", m.data, 1)
            EXCEPT !.camera_currently_moving = FALSE,
                   !.obs.superseded_end = @ \/ (m.pan # s.obs.npans)]
    [] cb = "lpan_stage1_end_cb" ->
         [schedule_event([s EXCEPT !.need_redraw = TRUE],
                         "lpan_stage2", m.data, 1)
            EXCEPT !.obs.superseded_end = @ \/ (m.pan # s.obs.npans)]

\* callbacks of the scheduled events, with a post_pan_end that leaves the
\* switchable widgets as they are
run_event_cb_AccessLeft(s, e) ==
  CASE e.event_cb = "test_event" ->
         [s EXCEPT !.obs.ev_calls[e.data] = @ + 1,
                   !.obs.ev_late = @ \/ (e.seen # e.n0)]
    [] e.event_cb = "post_pan_end" -> s
    [] e.event_cb = "lpan_stage2" ->
         camera_look_at_full(s, e.data[1], "MORPH_SIGMOID", e.data[2])
    [] e.event_cb = "initial_camera_pan" ->
         initial_camera_pan(s, e.data)

\* callbacks of the scheduled events: post_pan_end, lpan_stage2,
\* initial_camera_pan, and the event of the test
\* client, which counts its calls and notes a call in the wrong tick
run_event_cb(s, e) ==
  CASE e.event_cb = "test_event" ->
         [s EXCEPT !.obs.ev_calls[e.data] = @ + 1,
                   !.obs.ev_late = @ \/ (e.seen # e.n0)]
    [] e.event_cb = "post_pan_end" ->
         [s EXCEPT !.access = TRUE]
    [] e.event_cb = "lpan_stage2" ->
         camera_look_at_full(s, e.data[1], "MORPH_SIGMOID", e.data[2])
    [] e.event_cb = "initial_camera_pan" ->
         initial_camera_pan(s, e.data)


\* ======================================================= animation.c: ticks
\* a / b truncated toward zero (b > 0)
TruncDiv(a, b) == IF a >= 0 THEN a \div b ELSE -((-a) \div b)

\* The remapped percentage of a stage at time t_now, as a fraction <<n, d>>:
\* percent = (t_now - t_start) / (t_end - t_start), then the curve.  The
\* sigmoid 0.5 * (1 - cos(PI * p)) is taken as the cubic 3p^2 - 2p^3, which
\* stays within 0.01 of it on [0, 1].
curve(type, num, den) ==
  CASE type = "MORPH_LINEAR" -> <<num, den>>
    [] type = "MORPH_QUADRATIC" -> <<num * num, den * den>>
    [] type = "MORPH_INV_QUADRATIC" ->
         <<(den * den) - ((den - num) * (den - num)), den * den>>
    [] type = "MORPH_SIGMOID" ->
         <<(3 * num * num * den) - (2 * num * num * num), den * den * den>>

\* INTERPOLATE(percent, start_value, end_value) for the stage m at t_now
interpolate(m, t_now) ==
  LET k == curve(m.type, t_now - m.t_start, m.t_end - m.t_start)
  IN m.start_value + TruncDiv(k[1] * (m.end_value - m.start_value), k[2])

\* obs.dirty once the variable is given the value x: the aggregate lists
\* are out of date when the deployment of a directory has changed
deployed(s, var, x) ==
  IF var \in Dirs /\ x # s.value[var] THEN <<TRUE, TRUE>> ELSE s.obs.dirty

\* percent of the stage m at t_now is below 0.0, or 1.0 or above
percent_outside(m, t_now) ==
  \/ (m.t_end > m.t_start) /\ (t_now < m.t_start \/ t_now >= m.t_end)
  \/ (m.t_end < m.t_start) /\ (t_now > m.t_start \/ t_now <= m.t_end)

\* the end callback of a stage runs only if the stage has no successor
end_cb_due_OnlyLastStage(chain) == chain[1].end_cb # NULL /\ Len(chain) = 1

\* morph_iteration( ): whether the end callback of the stage that ends runs
end_cb_due(chain) == chain[1].end_cb # NULL

\* morph_iteration( ): the end callback of the stage that ends, if due
morph_end_cb(s, chain) ==
  IF end_cb_due(chain) THEN run_morph_cb(s, chain[1].end_cb, chain[1]) ELSE s

\* morph_iteration( ): the step callback of a running stage, if there is one
morph_step_cb(s, m) ==
  IF m.step_cb # NULL THEN run_morph_cb(s, m.step_cb, m) ELSE s

\* morph_iteration( ): drop in the next stage, or remove the record
morph_drop_stage(s, i) ==
  IF Len(s.morph_queue[i]) > 1
  THEN [s EXCEPT !.morph_queue[i] = Tail(@)]
  ELSE [s EXCEPT !.morph_queue = RemoveAt(@, i)]

RECURSIVE morph_iteration_from(_, _, _)
\* the loop of morph_iteration( ) from queue position i on; changed is
\* state_changed so far.  A stage that ends is replaced by its successor,
\* which is visited in the same pass.
morph_iteration_from(s, i, changed) ==
  IF i > Len(s.morph_queue) THEN <<s, changed>>
  ELSE
    LET chain == s.morph_queue[i]
        m == chain[1]
    IN IF s.now >= m.t_end
       THEN morph_iteration_from(
              morph_drop_stage(
                morph_end_cb([s EXCEPT !.value[m.var] = m.end_value,
                                       !.obs.dirty =
                                         deployed(s, m.var, m.end_value),
                                       !.obs.unadvanced = @ \ {m.var}],
                             chain),
                i),
              i, TRUE)
       ELSE morph_iteration_from(
              morph_step_cb([s EXCEPT !.value[m.var] = interpolate(m, s.now),
                                      !.obs.percent_out =
                                        @ \/ percent_outside(m, s.now),
                                      !.obs.dirty =
                                        deployed(s, m.var,
                                                 interpolate(m, s.now)),
                                      !.obs.unadvanced = @ \ {m.var}],
                            m),
              i + 1, TRUE)

\* morph_iteration( ): <<state, state_changed>>
morph_iteration(s) == morph_iteration_from(s, 1, FALSE)

\* scheduled_event_iteration( ): unlink the event that ran, r links from the
\* tail
schevent_remove(s, r) ==
  [s EXCEPT !.schevent_queue = RemoveAt(@, Len(@) - r + 1)]

RECURSIVE scheduled_event_iteration_from(_, _, _)
\* the loop of scheduled_event_iteration( ); r is the distance of the current
\* link from the tail (events prepended by a callback are not visited)
scheduled_event_iteration_from(s, r, executed) ==
  IF r = 0 THEN <<s, executed \/ (s.schevent_queue # <<>>)>>
  ELSE
    LET i == Len(s.schevent_queue) - r + 1
        e == s.schevent_queue[i]
    IN IF e.nframes - 1 <= 0
       THEN scheduled_event_iteration_from(
              schevent_remove(
                run_event_cb([s EXCEPT !.obs.tick_fired = TRUE,
                                       !.obs.ev_early =
                                         @ \/ (s.obs.unadvanced # {})],
                             e),
                r),
              r - 1, TRUE)
       ELSE scheduled_event_iteration_from(
              [s EXCEPT !.schevent_queue[i].nframes = @ - 1], r - 1, executed)

\* scheduled_event_iteration( ): <<state, events pending or executed>>
scheduled_event_iteration(s) ==
  scheduled_event_iteration_from(s, Len(s.schevent_queue), FALSE)

\* a tick has gone by for every event registered before its event phase
note_tick(s) ==
  [s EXCEPT !.schevent_queue =
     [i \in 1..Len(@) |-> [@[i] EXCEPT !.seen = @ + 1]]]

\* animation_loop( ): the frame is drawn and the events run if a redraw is
\* pending
events_due(s) == s.need_redraw

\* animation_loop( ): entering steady state
loop_steady(s, state_changed, schevents_pending) ==
  IF ~state_changed /\ ~schevents_pending
  THEN [s EXCEPT !.animation_active = FALSE]
  ELSE s

\* animation_loop( ): after the events of a drawn frame; ev is the result of
\* scheduled_event_iteration( )
loop_after_events(ev, state_changed) ==
  loop_steady(IF ~ev[2] THEN [ev[1] EXCEPT !.need_redraw = FALSE] ELSE ev[1],
              state_changed, ev[2])

\* animation_loop( ): the frame (ogl_draw and the events), if a redraw is
\* pending
loop_frame(s, state_changed) ==
  IF events_due(s)
  THEN loop_after_events(scheduled_event_iteration(geometry_draw(s, TRUE)),
                         state_changed)
  ELSE loop_steady(s, state_changed, FALSE)

\* animation_loop( ): after the morphs; mi is the result of
\* morph_iteration( )
loop_after_morphs(mi) == loop_frame(note_tick(mi[1]), mi[2])

\* the variables queued at the start of a tick are noted
tick_begin(s) ==
  [s EXCEPT !.obs.tick_vars =
              {s.morph_queue[i][1].var : i \in 1..Len(s.morph_queue)},
            !.obs.unadvanced =
              {s.morph_queue[i][1].var : i \in 1..Len(s.morph_queue)},
            !.obs.tick_fired = FALSE,
            !.obs.finished = {}]

\* animation_loop( ) that draws the frame and runs the scheduled events
\* before it advances the morphs
animation_loop_EventsFirst(s) ==
  Only({Only({loop_steady(IF ~ev[2] THEN [mi[1] EXCEPT !.need_redraw = FALSE]
                          ELSE mi[1],
                          mi[2], ev[2]) :
                mi \in {morph_iteration(ev[1])}}) :
          ev \in {IF events_due(s)
                  THEN scheduled_event_iteration(
                         geometry_draw(note_tick(tick_begin(s)), TRUE))
                  ELSE <<tick_begin(s), TRUE>>}})

\* animation_loop( )
animation_loop(s) == loop_after_morphs(morph_iteration(tick_begin(s)))


\* ============================================================ time and ticks
ClockStep == 2

\* wall-clock time passes while no handler runs
AdvanceClock ==
  /\ now + ClockStep <= MaxTime
  /\ Become([Cur EXCEPT !.now = now + ClockStep])

\* the idle handler installed by redraw( ) runs animation_loop( ) for as long
\* as it returns TRUE; every run reads a later time (xgettime)
IdleHandler(limit) ==
  /\ animation_active
  /\ now + ClockStep <= limit
  /\ Become(animation_loop([Cur EXCEPT !.now = now + ClockStep]))

Tick == IdleHandler(MaxTime)

ProgramInit ==
  /\ fsv_mode = "FSV_MAPV"
  /\ ctree_expanded = [d \in Dirs |-> d = "R"]
  /\ current_node = "R"
  /\ manual_control = FALSE
  /\ camera_currently_moving = FALSE
  /\ scrollbars_colexp_adjust = FALSE
  /\ history = <<>>
  /\ access = TRUE
  /\ fstree_low_draw_stage = 2
  /\ fstree_high_draw_stage = 2
  /\ need_rearrange = FALSE
  /\ treev = TreevBlank

SchedInit ==
  /\ now = 0
  /\ value = [v \in MorphVars |-> IF v = "R" THEN One ELSE 0]
  /\ morph_queue = <<>>
  /\ schevent_queue = <<>>
  /\ animation_active = FALSE
  /\ need_redraw = FALSE
  /\ mapv = MapvBlank
  /\ obs = ObsInit
  /\ ProgramInit

\* =================================================== a client of the morphs
\* Any subsystem may call morph_full, morph_finish and morph_break; this
\* client calls them in any order on two variables, giving every morph a
\* payload of its own.
ClientTypes == {"MORPH_LINEAR", "MORPH_QUADRATIC"}
ClientTargets == {One \div 2, One}
ClientDurations == {3}

MorphFullOn(v, type, target, d, cbs) ==
  /\ obs.nmorphs < MaxMorphs
  /\ LET id == MorphIdSeq[obs.nmorphs + 1]
         s1 == morph_full(Cur, v, type, target, d,
                          IF cbs THEN "test_step_cb" ELSE NULL,
                          IF cbs THEN "test_end_cb" ELSE NULL, id)
     IN Become([s1 EXCEPT !.obs.nmorphs = @ + 1])

\* the curve the client uses on each of its variables
ClientTypeOf(v) == IF v = "t" THEN "MORPH_LINEAR" ELSE "MORPH_QUADRATIC"

ClientMorphFull ==
  \E v \in TestVars, target \in ClientTargets, d \in ClientDurations,
     cbs \in BOOLEAN :
    MorphFullOn(v, ClientTypeOf(v), target, d, cbs)

MorphFinishOn(v) == Become(morph_finish(Cur, v))

ClientMorphFinish == \E v \in TestVars : MorphFinishOn(v)

\* the payloads of the stages queued on v
StageIds(v) ==
  LET i == find_var(morph_queue, v)
  IN IF i = 0 THEN {}
     ELSE {morph_queue[i][k].data : k \in 1..Len(morph_queue[i])}

MorphBreakOn(v) ==
  Become([morph_break(Cur, v) EXCEPT !.obs.broken = @ \cup StageIds(v),
                                     !.obs.stepped = @ \ StageIds(v)])

ClientMorphBreak == \E v \in TestVars : MorphBreakOn(v)

SchedNext ==
  \/ ClientMorphFull
  \/ ClientMorphFinish
  \/ ClientMorphBreak
  \/ Tick
  \/ AdvanceClock

SchedSpec == SchedInit /\ [][SchedNext]_vars

\* =================================================== a client of the events
\* This client schedules events, requests redraws and runs one plain morph
\* (no callbacks), as gui.c and dialog.c do.
ClientFrames == {1, 2}

ScheduleEventFor(n) ==
  /\ obs.nevents < MaxEvents
  /\ LET id == EventIdSeq[obs.nevents + 1]
         s1 == schedule_event(Cur, "test_event", id, n)
     IN Become([s1 EXCEPT !.obs.nevents = @ + 1])

ClientScheduleEvent == \E n \in ClientFrames : ScheduleEventFor(n)

ClientRedraw == Become(redraw(Cur))

ClientPlainMorph ==
  \E d \in ClientDurations :
    /\ obs.nmorphs < 1
    /\ Become([morph(Cur, "t", "MORPH_LINEAR", One, d)
                 EXCEPT !.obs.nmorphs = 1])

EventNext ==
  \/ ClientScheduleEvent
  \/ ClientRedraw
  \/ ClientPlainMorph
  \/ Tick
  \/ AdvanceClock

EventSpec == SchedInit /\ [][EventNext]_vars


\* ==================================================== claims: the scheduler
\* the record queued on v
ChainOf(q, v) == q[find_var(q, v)]
Queued(q, v) == find_var(q, v) # 0

\* C1: morph_finish(v) on a variable with one pending morph toward target
\* sets v to target and runs the completion callback once before it returns,
\* with no tick in between.
C1_FinishActsBeforeReturn ==
  [][\A v \in TestVars :
       (/\ Queued(morph_queue, v)
        /\ Len(ChainOf(morph_queue, v)) = 1
        /\ MorphFinishOn(v))
       => LET m == ChainOf(morph_queue, v)[1]
          IN /\ value'[v] = m.end_value
             /\ m.end_cb # NULL => obs'.end_calls[m.data] = 1]_vars

\* C2: morph_break(v) removes the whole record of v, every chained stage
\* included, and changes no value and runs no callback; a variable with no
\* record keeps its value on every later tick; and no step or end callback
\* of a discarded stage ever runs.
C2_BreakDiscardsAll ==
  [][\A v \in TestVars :
       /\ MorphBreakOn(v) =>
            /\ ~Queued(morph_queue', v)
            /\ value' = value
            /\ obs'.end_calls = obs.end_calls
       /\ (~Queued(morph_queue, v) /\ ~Queued(morph_queue', v)) =>
            value'[v] = value[v]
       /\ \A id \in obs.broken :
            obs'.end_calls[id] = 0 /\ id \notin obs'.stepped]_vars

\* a morph of several stages was broken, the loop has run on and has stopped
C2_Witness ==
  /\ Cardinality(obs.broken) >= 2
  /\ \E v \in TestVars : value[v] \notin {0} \cup ClientTargets
  /\ ~animation_active
  /\ now >= 4

\* the number of leading stages of a chain that have ended at time t
RECURSIVE EndedPrefix(_, _)
EndedPrefix(chain, t) ==
  IF chain = <<>> \/ t < chain[1].t_end THEN 0
  ELSE 1 + EndedPrefix(Tail(chain), t)

\* C3 as stated: the completion callback of a stage that has a successor is
\* not run when the stage ends.
C3_NoCallbackBeforeLastStage ==
  [][\A i \in 1..Len(morph_queue) :
       Len(morph_queue[i]) > 1 =>
         obs'.end_calls[morph_queue[i][1].data]
           = obs.end_calls[morph_queue[i][1].data]]_vars

\* C3 amended: in a tick every stage whose end time has passed (at the time
\* the tick reads) runs its own
\* completion callback once, whether or not it has a successor; the first
\* stage that has not ended becomes the record of the variable in that same
\* tick, and the record leaves the queue only when every stage has ended.
C3_EveryEndedStageCallsBack ==
  [][Tick =>
       \A i \in 1..Len(morph_queue) :
         LET chain == morph_queue[i]
             v == chain[1].var
             k == EndedPrefix(chain, now')
         IN /\ \A j \in 1..Len(chain) :
                 chain[j].end_cb # NULL =>
                   obs'.end_calls[chain[j].data]
                     = obs.end_calls[chain[j].data] + (IF j <= k THEN 1 ELSE 0)
            /\ IF k = Len(chain)
               THEN ~Queued(morph_queue', v)
               ELSE /\ Queued(morph_queue', v)
                    /\ ChainOf(morph_queue', v) = SubSeq(chain, k + 1, Len(chain))]_vars

\* the stage before the one now active has ended and has run its callback
C3_Witness ==
  \E i \in 1..Len(morph_queue) :
    /\ morph_queue[i][1].after # NULL
    /\ obs.end_calls[morph_queue[i][1].after] = 1

\* C4: a morph_full on a variable that is already morphing appends one stage
\* to its record, starting at the end time and the end value of the stage
\* that was last; so in every record each stage starts with the value its
\* predecessor ends with.
C4_ChainedStageContinues ==
  [][/\ \A v \in TestVars, type \in ClientTypes, target \in ClientTargets,
          d \in ClientDurations, cbs \in BOOLEAN :
          (Queued(morph_queue, v) /\ MorphFullOn(v, type, target, d, cbs)) =>
            LET old == ChainOf(morph_queue, v)
                new == ChainOf(morph_queue', v)
                n == Len(old)
            IN /\ Len(new) = n + 1
               /\ SubSeq(new, 1, n) = old
               /\ new[n + 1].t_start = old[n].t_end
               /\ new[n + 1].t_end = old[n].t_end + d
               /\ new[n + 1].start_value = old[n].end_value
               /\ new[n + 1].end_value = target
     /\ \A i \in 1..Len(morph_queue') :
          \A j \in 1..(Len(morph_queue'[i]) - 1) :
            morph_queue'[i][j + 1].start_value = morph_queue'[i][j].end_value]_vars

\* a second stage was chained while the variable was elsewhere, and its start
\* lies in the future
C4_Witness ==
  \E i \in 1..Len(morph_queue) :
    LET chain == morph_queue[i]
    IN /\ Len(chain) >= 2
       /\ chain[2].start_value # value[chain[1].var]
       /\ chain[2].start_value # chain[2].end_value
       /\ chain[2].t_start > now

\* C5: an event scheduled for n frames runs exactly once, in the n-th tick
\* after its registration: every tick counts, so an event still queued has
\* seen fewer than n ticks and has n minus that many frames left.
C5_EventRunsInNthTick ==
  /\ ~obs.ev_late
  /\ \A id \in EventIds : obs.ev_calls[id] <= 1
  /\ \A i \in 1..Len(schevent_queue) :
       LET e == schevent_queue[i]
       IN e.seen < e.n0 /\ e.nframes = e.n0 - e.seen


\* ================================================================ dirtree.c
\* dirtree_entry_expanded( dnode )
dirtree_entry_expanded(s, dnode) == s.ctree_expanded[dnode]

\* dirtree_entry_collapse_recursive( dnode ): gtk_ctree_collapse_recursive
dirtree_entry_collapse_recursive(s, dnode) ==
  [s EXCEPT !.ctree_expanded =
     [d \in Dirs |-> IF d = dnode \/ g_node_is_ancestor(dnode, d)
                     THEN FALSE ELSE @[d]]]

\* dirtree_entry_expand( dnode ): the entry and every ancestor entry
dirtree_entry_expand(s, dnode) ==
  [s EXCEPT !.ctree_expanded =
     [d \in Dirs |-> IF d = dnode \/ g_node_is_ancestor(d, dnode)
                     THEN TRUE ELSE @[d]]]

\* dirtree_entry_expand_recursive( dnode ): gtk_ctree_expand_recursive
dirtree_entry_expand_recursive(s, dnode) ==
  [s EXCEPT !.ctree_expanded =
     [d \in Dirs |-> IF d = dnode \/ g_node_is_ancestor(dnode, d)
                     THEN TRUE ELSE @[d]]]

\* ================================================================= colexp.c
DIR_COLLAPSED(s, dnode) == s.value[dnode] < Eps
DIR_EXPANDED(s, dnode) == s.value[dnode] > One - Eps

RECURSIVE collapsed_depth_from(_, _)
\* the loop of collapsed_depth( ) from up_node on
collapsed_depth_from(s, up_node) ==
  IF NODE_IS_DIR(up_node) /\ DIR_COLLAPSED(s, up_node)
  THEN 1 + collapsed_depth_from(s, NodeParent[up_node])
  ELSE 0

\* collapsed_depth( dnode )
collapsed_depth(s, dnode) == collapsed_depth_from(s, NodeParent[dnode])

MAX(a, b) == IF a > b THEN a ELSE b

MIN(a, b) == IF a < b THEN a ELSE b

RECURSIVE max_expanded_depth(_, _), max_expanded_depth_over(_, _)
\* the loop of max_expanded_depth( ) over the leading directories of a
\* child list
max_expanded_depth_over(s, kids) ==
  IF kids = <<>> THEN 0
  ELSE MAX(IF DIR_EXPANDED(s, Head(kids))
           THEN 1 + max_expanded_depth(s, Head(kids)) ELSE 0,
           max_expanded_depth_over(s, Tail(kids)))

\* max_expanded_depth( dnode )
max_expanded_depth(s, dnode) ==
  max_expanded_depth_over(s, LeadingDirs(NodeChildren[dnode]))

\* colexp( ), depth 0: the DEBUG assertion on the ancestors
colexp_ancestors_deployed(s, dnode) ==
  \A a \in SeqRange(AncestorDirs(dnode)) : s.value[a] > One - Eps

\* colexp( ), depth 0: ctree update and maximum recursion depth
colexp_update_ctree(s, dnode, mesg) ==
  CASE mesg = "COLEXP_COLLAPSE_RECURSIVE" ->
         LET s1 == dirtree_entry_collapse_recursive(s, dnode)
         IN [s1 EXCEPT !.max_depth = max_expanded_depth(s1, dnode)]
    [] mesg = "COLEXP_EXPAND" ->
         [dirtree_entry_expand(s, dnode) EXCEPT !.max_depth = 0]
    [] mesg = "COLEXP_EXPAND_ANY" ->
         LET s1 == dirtree_entry_expand(s, dnode)
         IN [s1 EXCEPT !.max_depth = collapsed_depth(s1, dnode)]
    [] mesg = "COLEXP_EXPAND_RECURSIVE" ->
         [dirtree_entry_expand_recursive(s, dnode) EXCEPT !.max_depth = 0]

\* colexp( ), depth 0: collapse/expand time of the visualization mode
colexp_time_of(mode) ==
  CASE mode = "FSV_DISCV" -> DISCV_COLEXP_TIME
    [] mode = "FSV_MAPV" -> MAPV_COLEXP_TIME
    [] mode = "FSV_TREEV" -> TREEV_COLEXP_TIME

\* colexp( ): the wait count, taken from the recursion depth alone
wait_count_DepthOnly(s, mesg) == s.depth

\* colexp( ): periods to wait before collapsing/expanding the directory
wait_count(s, mesg) ==
  CASE mesg = "COLEXP_COLLAPSE_RECURSIVE" -> s.max_depth - s.depth
    [] mesg \in {"COLEXP_EXPAND_RECURSIVE", "COLEXP_EXPAND"} -> s.depth
    [] mesg = "COLEXP_EXPAND_ANY" -> s.max_depth - s.depth

\* colexp( ) that starts the morph of an expand but not of a collapse
colexp_initiate_ExpandOnly(s, dnode, mesg) ==
  IF mesg = "COLEXP_COLLAPSE_RECURSIVE" THEN s
  ELSE morph_full(s, dnode, "MORPH_INV_QUADRATIC", One, s.colexp_time,
                  "colexp_progress_cb", "colexp_progress_cb", dnode)

\* colexp( ): initiate collapse/expand
colexp_initiate(s, dnode, mesg) ==
  IF mesg = "COLEXP_COLLAPSE_RECURSIVE"
  THEN morph_full(s, dnode, "MORPH_QUADRATIC", 0, s.colexp_time,
                  "colexp_progress_cb", "colexp_progress_cb", dnode)
  ELSE morph_full(s, dnode, "MORPH_INV_QUADRATIC", One, s.colexp_time,
                  "colexp_progress_cb", "colexp_progress_cb", dnode)

\* geometry_colexp_initiated( dnode ): the notification is noted in
\* obs.initiated with whether it reshapes the TreeV platform
geometry_colexp_initiated(s, dnode) ==
  [(IF DIR_COLLAPSED(s, dnode) /\ s.fsv_mode = "FSV_TREEV"
    THEN geometry_queue_rebuild(s, dnode) ELSE s)
     EXCEPT !.obs.initiated =
       Append(@, <<dnode,
                   DIR_COLLAPSED(s, dnode) /\ s.fsv_mode = "FSV_TREEV">>)]

\* colexp( ), depth 0, with a camera that stays on the current node
colexp_pan_StayOnNode(s, dnode, mesg, pan_time) ==
  IF mesg = "COLEXP_EXPAND_ANY" THEN s
  ELSE camera_look_at_full(s, s.current_node, "MORPH_LINEAR", pan_time)

\* colexp( ), depth 0: the camera, when it is not under manual control
colexp_pan(s, dnode, mesg, pan_time) ==
  CASE mesg = "COLEXP_COLLAPSE_RECURSIVE" ->
         IF g_node_is_ancestor(s.current_node, dnode) \/ s.current_node = dnode
         THEN camera_look_at_full(s, s.current_node, "MORPH_LINEAR", pan_time)
         ELSE IF g_node_is_ancestor(dnode, s.current_node)
         THEN camera_look_at_full(s, dnode, "MORPH_LINEAR", pan_time)
         ELSE s
    [] mesg \in {"COLEXP_EXPAND", "COLEXP_EXPAND_RECURSIVE"} ->
         IF g_node_is_ancestor(s.current_node, dnode) \/ s.current_node = dnode
         THEN camera_look_at_full(s, s.current_node, "MORPH_LINEAR", pan_time)
         ELSE s
    [] mesg = "COLEXP_EXPAND_ANY" -> s

\* colexp( ), depth 0: the camera and the scrollbars
colexp_camera(s, dnode, mesg) ==
  [(IF s.manual_control THEN s
    ELSE colexp_pan(s, dnode, mesg, (s.max_depth + 1) * s.colexp_time))
     EXCEPT !.scrollbars_colexp_adjust =
              g_node_is_ancestor(s.current_node, dnode)
              /\ s.fsv_mode = "FSV_TREEV"]

\* colexp( ), depth 0: the assertion, the ctree, the file list and the
\* collapse/expand time
colexp_enter(s, dnode, mesg) ==
  IF s.depth # 0 THEN s
  ELSE [colexp_update_ctree(
          IF mesg # "COLEXP_EXPAND_ANY" /\ ~colexp_ancestors_deployed(s, dnode)
          THEN [s EXCEPT !.obs.colexp_assert_failed = TRUE]
          ELSE s,
          dnode, mesg)
          EXCEPT !.colexp_time = colexp_time_of(s.fsv_mode),
                 !.obs.initiated = <<>>]

\* colexp( ): the wait stage before the collapse/expand
colexp_wait(s, dnode, mesg) ==
  IF wait_count(s, mesg) > 0
  THEN morph(s, dnode, "MORPH_LINEAR", s.value[dnode],
             wait_count(s, mesg) * s.colexp_time)
  ELSE s

\* colexp( ): update of the high-water mark
colexp_high_water(s, mesg) ==
  IF mesg = "COLEXP_EXPAND_RECURSIVE"
  THEN [s EXCEPT !.max_depth = MAX(@, s.depth)]
  ELSE s

\* colexp( ), depth 0: the camera and the scrollbars
colexp_leave(s, dnode, mesg) ==
  IF s.depth = 0 THEN colexp_camera(s, dnode, mesg) ELSE s

RECURSIVE colexp(_, _, _), colexp_children(_, _, _), colexp_recurse(_, _, _)
\* colexp( ): the loop over the subdirectories
colexp_children(s, kids, mesg) ==
  IF kids = <<>> THEN s
  ELSE colexp_children(colexp(s, Head(kids), mesg), Tail(kids), mesg)

\* colexp( ) that notifies geometry after the recursion whatever the message
colexp_recurse_NotifyLast(s, dnode, mesg) ==
  CASE mesg = "COLEXP_EXPAND" -> geometry_colexp_initiated(s, dnode)
    [] mesg = "COLEXP_EXPAND_ANY" ->
         geometry_colexp_initiated(
           IF NODE_IS_DIR(NodeParent[dnode])
           THEN [colexp([s EXCEPT !.depth = @ + 1], NodeParent[dnode], mesg)
                   EXCEPT !.depth = @ - 1]
           ELSE s,
           dnode)
    [] OTHER ->
         geometry_colexp_initiated(
           [colexp_children([s EXCEPT !.depth = @ + 1],
                            LeadingDirs(NodeChildren[dnode]), mesg)
              EXCEPT !.depth = @ - 1],
           dnode)

\* colexp( ): the notification of geometry and the recursion
colexp_recurse(s, dnode, mesg) ==
  CASE mesg = "COLEXP_EXPAND" -> geometry_colexp_initiated(s, dnode)
    [] mesg = "COLEXP_EXPAND_ANY" ->
         geometry_colexp_initiated(
           IF NODE_IS_DIR(NodeParent[dnode])
           THEN [colexp([s EXCEPT !.depth = @ + 1], NodeParent[dnode], mesg)
                   EXCEPT !.depth = @ - 1]
           ELSE s,
           dnode)
    [] OTHER ->
         [colexp_children(
            [geometry_colexp_initiated(s, dnode) EXCEPT !.depth = @ + 1],
            LeadingDirs(NodeChildren[dnode]), mesg)
            EXCEPT !.depth = @ - 1]

\* colexp( ): up to the start of the collapse/expand morph
colexp_start(s, dnode, mesg) ==
  colexp_initiate(
    colexp_wait(morph_break(colexp_enter(s, dnode, mesg), dnode), dnode, mesg),
    dnode, mesg)

\* colexp( dnode, mesg ); s.depth, s.max_depth and s.colexp_time are its
\* static locals.  The parts run one after the other, each on the state the
\* one before has left.
colexp(s, dnode, mesg) ==
  Only({colexp_leave(colexp_high_water(s2, mesg), dnode, mesg) :
          s2 \in {colexp_recurse(s1, dnode, mesg) :
                    s1 \in {colexp_start(s, dnode, mesg)}}})


\* ============================================== the user interface handlers
MAPV_CAMERA_MIN_PAN_TIME == 8

\* camera_look_at( node )
camera_look_at(s, node) == camera_look_at_full(s, node, "MORPH_SIGMOID", -1)

\* the row of a directory is shown in the tree widget when every entry above
\* it is expanded
RowShown(s, dnode) ==
  \A a \in SeqRange(AncestorDirs(dnode)) : dirtree_entry_expanded(s, a)

\* node_at_location( ) can return a node that the draw of the mode reaches:
\* mapv_draw_recursive and treev_draw_recursive build the children of every
\* directory that is not collapsed and recurse into it; discv_draw_recursive
\* builds the children of a directory that is not collapsed but recurses
\* only into an expanded one
node_drawn(s, node) ==
  LET up == AncestorDirs(node)
  IN IF s.fsv_mode = "FSV_DISCV"
     THEN \A i \in 1..Len(up) :
            IF i = 1 THEN ~DIR_COLLAPSED(s, up[i]) ELSE DIR_EXPANDED(s, up[i])
     ELSE \A i \in 1..Len(up) : ~DIR_COLLAPSED(s, up[i])

\* context_menu( node ): the collapse/expand items of the popup menu
context_menu(s, node) ==
  IF ~NODE_IS_DIR(node) THEN {}
  ELSE IF dirtree_entry_expanded(s, node)
  THEN {"COLEXP_COLLAPSE_RECURSIVE"}
  ELSE {"COLEXP_EXPAND"} \cup
       (IF \E d \in Dirs : g_node_is_ancestor(node, d)
        THEN {"COLEXP_EXPAND_RECURSIVE"} ELSE {})

\* a handler starts: its inputs from geometry, and the request is noted
Handler(name, node, swing, mesgs) ==
  [Cur EXCEPT !.swing = swing, !.look_time = MAPV_CAMERA_MIN_PAN_TIME,
              !.obs.nrequests = @ + 1, !.obs.mesgs = @ \cup mesgs,
              !.obs.handler = <<name, node>>]

\* dirtree_collapse_cb: the user collapses a row of the tree widget
DirtreeCollapseCb(dnode, swing) ==
  /\ obs.nrequests < MaxRequests
  /\ RowShown(Cur, dnode) /\ dirtree_entry_expanded(Cur, dnode)
  /\ Become(colexp(Handler("dirtree_collapse_cb", dnode, swing,
                           {"COLEXP_COLLAPSE_RECURSIVE"}),
                   dnode, "COLEXP_COLLAPSE_RECURSIVE"))

\* dirtree_expand_cb: the user expands a row of the tree widget
DirtreeExpandCb(dnode, swing) ==
  /\ obs.nrequests < MaxRequests
  /\ RowShown(Cur, dnode) /\ ~dirtree_entry_expanded(Cur, dnode)
  /\ Become(colexp(Handler("dirtree_expand_cb", dnode, swing,
                           {"COLEXP_EXPAND"}),
                   dnode, "COLEXP_EXPAND"))

\* dirtree_select_cb, button 3, and the item picked from the context menu
DirtreeSelectCb(dnode, mesg, swing) ==
  /\ obs.nrequests < MaxRequests
  /\ RowShown(Cur, dnode)
  /\ mesg \in context_menu(Cur, dnode)
  /\ Become(colexp(Handler("dirtree_select_cb", dnode, swing, {mesg}),
                   dnode, mesg))

\* viewport_cb, button press: an impatient user ends the pan; otherwise
\* button 3 on a node and the item picked from the context menu
ViewportCb(node, mesg, swing) ==
  /\ obs.nrequests < MaxRequests
  /\ IF camera_currently_moving
     THEN Become(camera_pan_finish(Handler("viewport_cb", NULL, swing, {})))
     ELSE /\ node_drawn(Cur, node)
          /\ mesg \in context_menu(Cur, node)
          /\ Become(colexp(Handler("viewport_cb", node, swing, {mesg}),
                           node, mesg))

\* viewport_cb, pointer motion with control and button 1 held while the
\* camera is not panning: camera_revolve( ) puts the camera under the control
\* of the user (the angles take the deltas of the pointer, 0 here)
ViewportDrag ==
  /\ obs.nrequests < MaxRequests
  /\ ~camera_currently_moving
  /\ Become(redraw([Handler("viewport_cb", NULL, FALSE, {})
                      EXCEPT !.manual_control = TRUE]))

\* look_at_target_node_cb( node ): a target buried inside a collapsed tree
\* is expanded out into the open
look_at_uncover(s, node) ==
  IF NODE_IS_DIR(NodeParent[node])
     /\ ~dirtree_entry_expanded(s, NodeParent[node])
  THEN colexp(s, NodeParent[node], "COLEXP_EXPAND_ANY")
  ELSE s

\* look_at_target_node_cb: the "Look at target node" button of the Properties
\* dialog of a symlink, here with a file as the target; colexp( ) returns
\* before camera_look_at( ) is called
LookAtTargetNodeCb(node, swing) ==
  /\ obs.nrequests < MaxRequests
  /\ \E s1 \in {look_at_uncover(
                   Handler("look_at_target_node_cb", node, swing,
                           IF NODE_IS_DIR(NodeParent[node])
                              /\ ~dirtree_entry_expanded(Cur, NodeParent[node])
                           THEN {"COLEXP_EXPAND_ANY"} ELSE {}),
                   node)} :
       Become(camera_look_at(s1, node))

UiTick == IdleHandler(MaxClock)

\* Any state the program is in when every collapse/expand has ended: the
\* expanded entries are closed under parent, and each deployment agrees.
ExpandedSets == {{"R"}, {"R", "A"}, {"R", "A", "B"}, {"R", "A", "B", "C"}}

Init ==
  /\ \E E \in ExpandedSets :
       /\ ctree_expanded = [d \in Dirs |-> d \in E]
       /\ value = [v \in MorphVars |-> IF v \in E THEN One ELSE 0]
  /\ manual_control \in BOOLEAN
  /\ now = 0
  /\ morph_queue = <<>>
  /\ schevent_queue = <<>>
  /\ animation_active = FALSE
  /\ need_redraw = FALSE
  /\ fsv_mode = "FSV_MAPV"
  /\ current_node = "R"
  /\ camera_currently_moving = FALSE
  /\ scrollbars_colexp_adjust = FALSE
  /\ history = <<>>
  /\ access = TRUE
  /\ fstree_low_draw_stage = 2
  /\ fstree_high_draw_stage = 2
  /\ need_rearrange = FALSE
  /\ treev = TreevBlank
  /\ mapv = MapvBlank
  /\ obs = ObsInit

Next ==
  \/ \E d \in Dirs, swing \in BOOLEAN : DirtreeCollapseCb(d, swing)
  \/ \E d \in Dirs, swing \in BOOLEAN : DirtreeExpandCb(d, swing)
  \/ \E d \in Dirs, mesg \in ColExpMesgs, swing \in BOOLEAN :
       DirtreeSelectCb(d, mesg, swing)
  \/ \E n \in Nodes, mesg \in ColExpMesgs, swing \in BOOLEAN :
       ViewportCb(n, mesg, swing)
  \/ \E n \in Leaves, swing \in BOOLEAN : LookAtTargetNodeCb(n, swing)
  \/ ViewportDrag
  \/ UiTick

Spec == Init /\ [][Next]_vars


\* ============================================== claims: collapse and expand
\* no morph is queued on any deployment
DeploymentsSettled == \A d \in Dirs : ~Queued(morph_queue, d)

\* C6: once every deployment morph started by EXPAND and COLLAPSE_RECURSIVE
\* requests has completed, the tree entry of every directory is expanded
\* exactly when its deployment is above 1 - EPSILON and collapsed exactly
\* when it is below EPSILON.
C6_SettledEntryMatchesDeployment ==
  (/\ obs.mesgs \subseteq {"COLEXP_EXPAND", "COLEXP_COLLAPSE_RECURSIVE"}
   /\ DeploymentsSettled)
  => \A d \in Dirs :
       /\ dirtree_entry_expanded(Cur, d) <=> DIR_EXPANDED(Cur, d)
       /\ ~dirtree_entry_expanded(Cur, d) <=> DIR_COLLAPSED(Cur, d)

\* C7: a deployment with no morph queued on it is collapsed or expanded,
\* never strictly between.
C7_IdleDeploymentIsExtreme ==
  \A d \in Dirs :
    ~Queued(morph_queue, d) => DIR_COLLAPSED(Cur, d) \/ DIR_EXPANDED(Cur, d)

\* the morph of a directory of the last request has run to its end, while
\* another deployment is still strictly between
C7_Witness ==
  /\ \E i \in 1..Len(obs.initiated) : ~Queued(morph_queue, obs.initiated[i][1])
  /\ \E d \in Dirs :
       Queued(morph_queue, d) /\ ~DIR_COLLAPSED(Cur, d) /\ ~DIR_EXPANDED(Cur, d)
  /\ obs.nrequests >= 2

\* the start time of the collapse/expand stage queued on a deployment
ColexpStart(q, d) == last_morph_stage(ChainOf(q, d)).t_start

\* the directories whose queued collapse/expand stage changes the deployment
Transitioning(q) ==
  {d \in Dirs : Queued(q, d)
                /\ last_morph_stage(ChainOf(q, d)).start_value
                     # last_morph_stage(ChainOf(q, d)).end_value}

\* the leaf f lies under three collapsed directories, below the expanded root
ThreeLevelsCollapsed ==
  /\ DeploymentsSettled
  /\ DIR_EXPANDED(Cur, "R") /\ dirtree_entry_expanded(Cur, "R")
  /\ \A d \in {"A", "B", "C"} :
       DIR_COLLAPSED(Cur, d) /\ ~dirtree_entry_expanded(Cur, d)

\* the step is a run of look_at_target_node_cb on the node
LookAtTargetRan(node) ==
  /\ obs'.nrequests = obs.nrequests + 1
  /\ obs'.handler = <<"look_at_target_node_cb", node>>

\* C8 as stated: EXPAND_ANY for a leaf under three collapsed directories
\* makes exactly these three expand, the one nearest the leaf starting first
\* and each further-out one a colexp time later.
C8_InnermostStartsFirst ==
  [][(ThreeLevelsCollapsed /\ LookAtTargetRan("f")) =>
         /\ Transitioning(morph_queue') = {"A", "B", "C"}
         /\ ColexpStart(morph_queue', "C") = now
         /\ ColexpStart(morph_queue', "B") = now + colexp_time_of(fsv_mode)
         /\ ColexpStart(morph_queue', "A") = now + 2 * colexp_time_of(fsv_mode)]_vars

\* C8 amended: exactly these three expand, the outermost collapsed directory
\* starting at the request and each directory nearer the leaf one colexp time
\* after the one above it, every one toward full deployment.
C8_OutermostStartsFirst ==
  [][(ThreeLevelsCollapsed /\ LookAtTargetRan("f")) =>
         /\ Transitioning(morph_queue') = {"A", "B", "C"}
         /\ \A d \in {"A", "B", "C"} :
              last_morph_stage(ChainOf(morph_queue', d)).end_value = One
         /\ ColexpStart(morph_queue', "A") = now
         /\ ColexpStart(morph_queue', "B") = now + colexp_time_of(fsv_mode)
         /\ ColexpStart(morph_queue', "C") = now + 2 * colexp_time_of(fsv_mode)]_vars

\* after the one EXPAND_ANY request: A is fully deployed, B is under way and
\* C still waits
C8_Witness ==
  /\ obs.mesgs = {"COLEXP_EXPAND_ANY"} /\ obs.nrequests = 1
  /\ DIR_EXPANDED(Cur, "A")
  /\ ~DIR_COLLAPSED(Cur, "B") /\ ~DIR_EXPANDED(Cur, "B")
  /\ DIR_COLLAPSED(Cur, "C") /\ Len(ChainOf(morph_queue, "C")) = 2

\* the last collapse/expand request was made on dnode or on a directory
\* above it (a recursive request notifies its own directory first)
LastRequestCovers(dnode) ==
  /\ obs.initiated # <<>>
  /\ \/ obs.initiated[1][1] = dnode
     \/ g_node_is_ancestor(obs.initiated[1][1], dnode)

\* C9: a directory that a COLLAPSE_RECURSIVE request collapses does not begin
\* its collapse morph before every directory below it that was not collapsed
\* has finished collapsing (deployment < EPSILON).
C9_CollapseInnermostFirst ==
  \A d \in Dirs :
    (/\ LastRequestCovers(d)
     /\ Queued(morph_queue, d)
     /\ ChainOf(morph_queue, d)[1].type = "MORPH_QUADRATIC"
     /\ ChainOf(morph_queue, d)[1].t_start <= now)
    => \A e \in Dirs : g_node_is_ancestor(d, e) => DIR_COLLAPSED(Cur, e)

\* C10: the assertion of colexp( ) on the ancestors of the target holds at
\* every entry at depth 0 with a message other than EXPAND_ANY.
C10_AncestorsDeployedAtEntry == ~obs.colexp_assert_failed


\* ============================= claims: the camera in a collapse or expansion
\* The user interface when the node of interest is some node in view below
\* the root: the state after a double click on the node and the end of the
\* pan, with or without a drag of the camera since.
InterestInit ==
  /\ ctree_expanded = [d \in Dirs |-> d # "C"]
  /\ value = [v \in MorphVars |-> IF v \in {"R", "A", "B"} THEN One ELSE 0]
  /\ current_node \in {"R", "B"}
  /\ manual_control \in BOOLEAN
  /\ now = 0
  /\ morph_queue = <<>>
  /\ schevent_queue = <<>>
  /\ animation_active = FALSE
  /\ need_redraw = FALSE
  /\ fsv_mode = "FSV_MAPV"
  /\ camera_currently_moving = FALSE
  /\ scrollbars_colexp_adjust = FALSE
  /\ history = <<>>
  /\ access = TRUE
  /\ fstree_low_draw_stage = 2
  /\ fstree_high_draw_stage = 2
  /\ need_rearrange = FALSE
  /\ treev = TreevBlank
  /\ mapv = MapvBlank
  /\ obs = ObsInit

InterestSpec == InterestInit /\ [][Next]_vars

\* the step is a handler run on directory d that collapses the entry of d
\* (a COLLAPSE_RECURSIVE request on d)
CollapseRan(d) ==
  /\ obs'.nrequests = obs.nrequests + 1
  /\ obs'.handler[2] = d
  /\ ctree_expanded[d] /\ ~ctree_expanded'[d]

\* C13 as stated: a COLLAPSE_RECURSIVE request on d made while the current
\* node is a strict descendant of d makes d the current node.
C13_CollapseRedirectsCamera ==
  [][\A d \in Dirs :
       (CollapseRan(d) /\ g_node_is_ancestor(d, current_node))
       => current_node' = d]_vars

\* C13, amended: it does so when the camera is not under manual control, and
\* the camera is then panning and no longer under manual control.
C13_CollapseRedirectsUnlessManual ==
  [][\A d \in Dirs :
       (CollapseRan(d) /\ g_node_is_ancestor(d, current_node)
        /\ ~manual_control)
       => /\ current_node' = d
          /\ camera_currently_moving' /\ ~manual_control']_vars

\* directory A was collapsed while the current node was B below it, and the
\* camera now pans to A
C13_Witness ==
  /\ obs.handler = <<"dirtree_collapse_cb", "A">>
  /\ current_node = "A"
  /\ history # <<>> /\ Head(history) = "B"
  /\ camera_currently_moving
  /\ \E i \in 1..Len(morph_queue) :
        morph_queue[i][1].var = "pan_part" /\ morph_queue[i][1].data = "A"

\* the step is a call of morph_full( ) by the client
MorphRequested == obs'.nmorphs = obs.nmorphs + 1

\* C17 as stated: when morph_full( ) returns, the animation loop is active and
\* a redraw is pending.
C17_MorphRequestsFrame ==
  [][MorphRequested => animation_active' /\ need_redraw']_vars

\* C17: when morph_full( ) returns, the animation loop is active; a redraw is
\* pending if one was pending before the call or the loop was idle before the
\* call, and not otherwise.
C17_MorphKeepsLoopActive ==
  [][MorphRequested =>
       /\ animation_active'
       /\ need_redraw' = (need_redraw \/ ~animation_active)]_vars

\* a morph was just requested on a second variable while the loop was active
\* with no redraw pending
C17_Witness ==
  /\ Len(morph_queue) = 2
  /\ morph_queue[1][1].t_start = now
  /\ morph_queue[2][1].t_start < now
  /\ animation_active
  /\ ~need_redraw

\* C16: no scheduled event runs in a tick before morph_iteration( ) has
\* visited every variable that was in the morph queue when the tick began.
C16_MorphsBeforeEvents == ~obs.ev_early /\ (obs.tick_fired => obs.unadvanced = {})

\* a tick that began with the pan variables of a swing-back pan queued, and
\* in which a scheduled event ran
C16_Witness ==
  /\ obs.tick_fired
  /\ {"pan_part", "distance"} \subseteq obs.tick_vars
  /\ obs.unadvanced = {}

\* C15: in the notifications of one top-level request, a directory comes
\* before every directory below it.
C15_InitiatedParentFirst ==
  \A i, j \in 1..Len(obs.initiated) :
    g_node_is_ancestor(obs.initiated[i][1], obs.initiated[j][1]) => i < j

\* requests of both shapes were made: an EXPAND_ANY that walked up from C
\* through B to A, and before it a recursive request
C15_Witness ==
  /\ obs.handler = <<"look_at_target_node_cb", "f">>
  /\ Len(obs.initiated) = 3
  /\ obs.initiated[1][1] = "A" /\ obs.initiated[3][1] = "C"
  /\ obs.mesgs \cap {"COLEXP_COLLAPSE_RECURSIVE", "COLEXP_EXPAND_RECURSIVE"}
       # {}

\* the step is a collapse/expand request at the end of which colexp starts a
\* camera pan
ColexpPanRan ==
  /\ obs'.nrequests = obs.nrequests + 1
  /\ obs'.npans = obs.npans + 1
  /\ obs'.handler[1] # "look_at_target_node_cb"

SetMax(S) == CHOOSE x \in S : \A y \in S : y <= x

\* the directories notified in the request noted in ini
Notified(ini) == {ini[i][1] : i \in 1..Len(ini)}

\* the deepest level, relative to the directory of the request, of a
\* directory that the request makes collapse or expand
RequestLevel(q, ini) ==
  SetMax({0} \cup {Len(AncestorDirs(d)) - Len(AncestorDirs(ini[1][1])) :
                     d \in Notified(ini) \cap Transitioning(q)})

\* the end of the last deployment morph of the request
LastDeploymentEnd(q, ini) ==
  SetMax({last_morph_stage(ChainOf(q, d)).t_end : d \in Notified(ini)})

\* C14: the pan that colexp starts at the end of a depth-0 request lasts
\* (max_depth + 1) collapse/expand times, max_depth being the deepest relative
\* level the request makes collapse or expand, and ends when the last
\* deployment morph of the request ends.
C14_PanLastsAsLongAsRequest ==
  [][ColexpPanRan =>
       /\ Queued(morph_queue', "pan_part")
       /\ ChainOf(morph_queue', "pan_part")[1].t_start = now
       /\ ChainOf(morph_queue', "pan_part")[1].t_end - now
            = (RequestLevel(morph_queue', obs'.initiated) + 1)
                * colexp_time_of(fsv_mode)
       /\ ChainOf(morph_queue', "pan_part")[1].t_end
            = LastDeploymentEnd(morph_queue', obs'.initiated)]_vars


\* ===================================================== the camera on its own
\* The pans of the camera with every directory expanded: double clicks in the
\* tree and the file list, changes of the visualization mode (whose initial
\* pan is L-shaped in TreeV mode) and button presses in the viewport.
MaxPanClock == 24

\* camera_init( mode, FALSE ): the camera faces the new geometry; the numbers
\* that come from the geometry are 0 here
camera_init(s, mode) ==
  [s EXCEPT !.value["pan_part"] = One, !.value["theta"] = 0,
            !.value["distance"] = 0, !.value["target"] = 0]

\* fsv_set_mode( mode ) when a file system is on display.  geometry_init
\* queues the rebuild of the whole geometry; the deployments it resets are
\* those of the expanded state, which they have when nothing is morphing.
fsv_set_mode(s, mode) ==
  schedule_event([camera_init(geometry_queue_rebuild(s, "R"), mode)
                    EXCEPT !.fsv_mode = mode],
                 "initial_camera_pan", "", 1)

\* on_vis_mapv_activate, on_vis_treev_activate
OnVisActivate(mode) ==
  /\ obs.nrequests < MaxRequests
  /\ fsv_mode # mode
  /\ Become(fsv_set_mode(Handler("on_vis_activate", NULL, FALSE, {}), mode))

\* dirtree_select_cb and filelist_select_cb, double click of button 1
SelectDoubleClick(node, swing) ==
  /\ obs.nrequests < MaxRequests
  /\ Become(camera_look_at(Handler("select_cb", node, swing, {}), node))

\* viewport_cb, button press while the camera is moving
ViewportPress ==
  /\ obs.nrequests < MaxRequests
  /\ camera_currently_moving
  /\ Become(camera_pan_finish(Handler("viewport_cb", NULL, FALSE, {})))

\* animation_loop( ) after a frame that took dt
PanTick(dt) ==
  /\ animation_active
  /\ now + dt <= MaxPanClock
  /\ Become(animation_loop([Cur EXCEPT !.now = now + dt]))

PanInit ==
  /\ now = 0
  /\ value = [v \in MorphVars |-> IF v \in Dirs THEN One ELSE 0]
  /\ morph_queue = <<>>
  /\ schevent_queue = <<>>
  /\ animation_active = FALSE
  /\ need_redraw = FALSE
  /\ fsv_mode \in {"FSV_MAPV", "FSV_TREEV"}
  /\ ctree_expanded = [d \in Dirs |-> TRUE]
  /\ current_node = "R"
  /\ manual_control \in BOOLEAN
  /\ camera_currently_moving = FALSE
  /\ scrollbars_colexp_adjust = FALSE
  /\ history = <<>>
  /\ access = TRUE
  /\ fstree_low_draw_stage = 2
  /\ fstree_high_draw_stage = 2
  /\ need_rearrange = FALSE
  /\ treev = TreevBlank
  /\ mapv = MapvBlank
  /\ obs = ObsInit

PanNext ==
  \/ \E mode \in {"FSV_MAPV", "FSV_TREEV"} : OnVisActivate(mode)
  \/ \E n \in {"R", "B", "f"}, swing \in BOOLEAN : SelectDoubleClick(n, swing)
  \/ ViewportPress
  \/ \E dt \in {ClockStep, 4 * ClockStep} : PanTick(dt)

PanSpec == PanInit /\ [][PanNext]_vars

\* The idle handler installed by redraw( ) is called again and again for as
\* long as it returns TRUE (animation_active) and the clock has not run out.
\* A tick is the only step that advances the clock, so that the steps of
\* PanTick are those that change now as PanTicks says.
PanTicks ==
  /\ animation_active
  /\ now' \in {now + ClockStep, now + 4 * ClockStep}
  /\ now' <= MaxPanClock

PanLiveSpec == PanSpec /\ WF_now(PanTicks)

\* the clock of the model has run out
PanClockOut == now + ClockStep > MaxPanClock

\* ------------------------------------------------------- claims: the camera
CamChains == {i \in 1..Len(morph_queue) : morph_queue[i][1].var \in CamVars}

\* C11: every stage queued on a camera variable was requested by the newest
\* pan request, at most one master morph (pan_part) is pending and it has a
\* single stage, and no end callback of a pan ran after a later pan request.
C11_OnlyNewestPan ==
  /\ \A i \in CamChains : \A k \in 1..Len(morph_queue[i]) :
        morph_queue[i][k].pan = obs.npans
  /\ \A i \in CamChains :
        morph_queue[i][1].var = "pan_part" => Len(morph_queue[i]) = 1
  /\ Cardinality({i \in CamChains : morph_queue[i][1].var = "pan_part"}) <= 1
  /\ ~obs.superseded_end

\* a second pan request was made while the master morph of the first was
\* pending, and the pan of an L-shaped one went on to its second stage
C11_Witness ==
  /\ obs.npans >= 3
  /\ fsv_mode = "FSV_TREEV"
  /\ \E i \in CamChains : /\ morph_queue[i][1].var = "pan_part"
                           /\ morph_queue[i][1].end_cb = "pan_end_cb"
                           /\ now > morph_queue[i][1].t_start

\* the step is the first tick after camera_pan_finish( ) on a pan under way
FinishedPanTick ==
  /\ now' # now
  /\ camera_currently_moving
  /\ Queued(morph_queue, "pan_part")
  /\ ChainOf(morph_queue, "pan_part")[1].t_end = 0

\* C18: in the first tick after camera_pan_finish( ) every camera variable
\* leaves the morph queue with the value its last queued stage leads to, and
\* the pan has ended (the camera no longer moves and the end callback and its
\* event have run).
C18_PanFinishCompletesPan ==
  [][FinishedPanTick =>
       /\ \A v \in CamVars :
            /\ ~Queued(morph_queue', v)
            /\ Queued(morph_queue, v) =>
                 value'[v] = last_morph_stage(ChainOf(morph_queue, v)).end_value
       /\ ~camera_currently_moving'
       /\ access']_vars


\* ============================================================ the draw stages
\* Frames, picking draws and the events that zero the draw stages: a change
\* of the color mode, and the collapse and expansion of directory A with the
\* rearrangement of the TreeV tree that follows.

\* color_set_mode( mode ), from the Colors menu
OnColorActivate ==
  Become(redraw(geometry_queue_rebuild(Cur, "R")))

\* viewport_cb, pointer motion: node_at_location( ) draws for picking
\* (ogl_select)
ViewportMotion ==
  Become(geometry_draw(Cur, FALSE))

\* animation_loop( ); resized tells whether a rearrangement in the draw finds
\* the total arc width out of bounds
DrawTick(resized) ==
  /\ animation_active
  /\ now + ClockStep <= MaxClock
  /\ Become(animation_loop([Cur EXCEPT !.now = now + ClockStep,
                                       !.resized = resized]))

DrawInit ==
  /\ now = 0
  /\ value = [v \in MorphVars |-> IF v = "R" THEN One ELSE 0]
  /\ morph_queue = <<>>
  /\ schevent_queue = <<>>
  /\ animation_active = FALSE
  /\ need_redraw = FALSE
  /\ fsv_mode \in {"FSV_DISCV", "FSV_MAPV", "FSV_TREEV"}
  /\ ctree_expanded = [d \in Dirs |-> d = "R"]
  /\ current_node = "R"
  /\ manual_control = TRUE
  /\ camera_currently_moving = FALSE
  /\ scrollbars_colexp_adjust = FALSE
  /\ history = <<>>
  /\ access = TRUE
  /\ fstree_low_draw_stage = 2
  /\ fstree_high_draw_stage = 2
  /\ need_rearrange = FALSE
  /\ treev = TreevBlank
  /\ mapv = MapvBlank
  /\ obs = ObsInit

DrawNext ==
  \/ OnColorActivate
  \/ ViewportMotion
  \/ ClientRedraw
  \/ DirtreeExpandCb("A", FALSE)
  \/ DirtreeCollapseCb("A", FALSE)
  \/ \E resized \in BOOLEAN : DrawTick(resized)

DrawSpec == DrawInit /\ [][DrawNext]_vars

\* --------------------------------------------------- claims: the draw stages
\* C12 as stated: the draw stages never exceed 2, both are 0 as long as no
\* draw has followed the event that zeroed them, and every draw after the
\* second one since that event replays the lists without any recursive draw.
C12_ThirdDrawReplays ==
  /\ fstree_low_draw_stage \in 0..2 /\ fstree_high_draw_stage \in 0..2
  /\ obs.since_stale[1] = 0 =>
        fstree_low_draw_stage = 0 /\ fstree_high_draw_stage = 0
  /\ obs.since_stale[1] >= 3 =>
        /\ obs.last_draw[1] = "replayed"
        /\ obs.last_draw[2] \in {"replayed", "none"}

\* C12, amended: the stages never exceed 2 and are both 0 after the event;
\* the low-detail list is replayed by every draw after the second draw, and
\* the high-detail list by every draw after the second high-detail draw.
C12_EachListAfterItsSecondDraw ==
  /\ fstree_low_draw_stage \in 0..2 /\ fstree_high_draw_stage \in 0..2
  /\ obs.since_stale[1] = 0 =>
        fstree_low_draw_stage = 0 /\ fstree_high_draw_stage = 0
  /\ obs.since_stale[1] >= 3 => obs.last_draw[1] = "replayed"
  /\ obs.since_stale[2] >= 3 =>
        /\ obs.last_draw[1] = "replayed"
        /\ obs.last_draw[2] \in {"replayed", "none"}

\* three frames were drawn after directory A was expanded, the third a replay
C12_Witness ==
  /\ obs.mesgs # {}
  /\ morph_queue = <<>>
  /\ obs.since_stale = <<3, 3>>
  /\ obs.last_draw = <<"replayed", "replayed">>

\* C29: after a pan request has disabled part of the user interface with
\* window_set_access( FALSE ), post_pan_end eventually runs and enables it
\* again, provided ticks keep occurring and the clock advances, also when
\* the pan is superseded by a newer request or cut short by
\* camera_pan_finish.
C29_AccessReturns == (~access) ~> (access \/ PanClockOut)

\* the user interface is enabled again after a second pan request and a
\* button press in the viewport that cut the pan short
C29_Witness ==
  /\ access
  /\ obs.npans >= 2
  /\ obs.handler[1] = "viewport_cb"
  /\ morph_queue = <<>> /\ schevent_queue = <<>>

\* C28: whenever fstree_low_draw_stage or fstree_high_draw_stage is 2, no stale
\* flag has been raised on a directory and no deployment has changed since
\* that aggregate list was captured: whatever raises a flag or changes a
\* deployment zeroes both stages before the next draw.
C28_ReplayedListsUpToDate ==
  /\ fstree_low_draw_stage = 2 => ~obs.dirty[1]
  /\ fstree_high_draw_stage = 2 => ~obs.dirty[2]

\* both lists were captured anew after directory A had expanded
C28_Witness ==
  /\ fstree_low_draw_stage = 2 /\ fstree_high_draw_stage = 2
  /\ obs.initiated # <<>>
  /\ value["A"] = One
  /\ obs.since_stale = <<3, 3>>

\* ============================================== geometry.c: the TreeV layout
\* ceil( sqrt( n ) ) for n >= 1
CeilSqrt(n) == CHOOSE c \in 1..250 : (c - 1) * (c - 1) < n /\ n <= c * c

\* treev_reshape_platform( ): k, the edge of the square of estimated area
platform_k ==
  [d \in TvDirs |->
     ((3 * TREEV_LEAF_NODE_EDGE) \div 2) * CeilSqrt(MAX(1, NumChildren[d]))
       + (TREEV_LEAF_NODE_EDGE \div 2)]

\* d^3 + (2*r + w)*d^2 + (2*w*r - 2*A - w)*d - 2*A*r, the equation the depth
\* of a platform solves (the term w*d of the third coefficient is 1/32 of a
\* unit of d here and is left out)
platform_cubic(d, A, r) ==
  (d * d * d) + ((2 * r + TREEV_PLATFORM_SPACING_WIDTH) * d * d)
    + ((2 * TREEV_PLATFORM_SPACING_WIDTH * r - 2 * A) * d) - (2 * A * r)

RECURSIVE platform_root(_, _, _, _)
\* The closed form of treev_reshape_platform( ) is the positive root of the
\* equation; here the root is found, rounded down, by bisection between
\* lo (where the cubic is not positive) and hi (where it is: the cubic is
\* positive at 3/2 k whatever the radius).
platform_root(A, r, lo, hi) ==
  IF hi - lo <= 1 THEN lo
  ELSE IF platform_cubic((lo + hi) \div 2, A, r) <= 0
       THEN platform_root(A, r, (lo + hi) \div 2, hi)
       ELSE platform_root(A, r, lo, (lo + hi) \div 2)

\* 180 / PI degrees per radian, in thousandths of a degree, times x / y
DegreesOf(x, y) == (57296 * x) \div y

\* min_arc_width of treev_reshape_platform( )
min_arc_width(r0) ==
  DegreesOf(2 * TREEV_LEAF_NODE_EDGE + TREEV_PLATFORM_SPACING_WIDTH, 1)
    \div r0

\* treev_reshape_platform( ) with the minimum arc width for every platform
treev_reshape_platform_MinArc(t, dnode, r0) ==
  Only({[t EXCEPT
           !.gparams[dnode].arc_width = min_arc_width(r0),
           !.gparams[dnode].depth =
             d + (3 - ((d - 1) % 3)) + 1,
           !.shaped_r0[dnode] = r0,
           !.a_dlist_stale = @ \cup {dnode}] :
          d \in {platform_root(platform_k[dnode] * platform_k[dnode], r0,
                               0, (3 * platform_k[dnode]) \div 2)}})

\* treev_reshape_platform( dnode, r0 ): depth and arc width of the platform,
\* and geometry_queue_rebuild( dnode )
treev_reshape_platform(t, dnode, r0) ==
  Only({[t EXCEPT
           !.gparams[dnode].arc_width =
             MAX(min_arc_width(r0),
                 DegreesOf(d + TREEV_PLATFORM_SPACING_WIDTH, r0 + d)),
           !.gparams[dnode].depth =
             d + (3 - ((d - 1) % 3)) + 1,
           !.shaped_r0[dnode] = r0,
           !.a_dlist_stale = @ \cup {dnode}] :
          d \in {platform_root(platform_k[dnode] * platform_k[dnode], r0,
                               0, (3 * platform_k[dnode]) \div 2)}})

\* geometry_treev_is_leaf( node )
geometry_treev_is_leaf(t, node) == ~(node \in TvDirs /\ t.expanded[node])

RECURSIVE TvAncestors(_)
\* dnode->parent and the nodes above it, up to the metanode
TvAncestors(dnode) ==
  IF dnode = Metanode THEN {}
  ELSE {TvParent[dnode]} \cup TvAncestors(TvParent[dnode])

RECURSIVE SumDepths(_, _)
SumDepths(t, S) ==
  IF S = {} THEN 0
  ELSE LET n == CHOOSE x \in S : TRUE
       IN TREEV_PLATFORM_SPACING_DEPTH + t.gparams[n].depth
            + SumDepths(t, S \ {n})

\* geometry_treev_platform_r0( dnode )
geometry_treev_platform_r0(t, dnode) ==
  IF dnode = Metanode THEN t.treev_core_radius
  ELSE SumDepths(t, TvAncestors(dnode)) + t.treev_core_radius

\* treev_arrange_recursive( ): the arc width a child takes up
child_arc_width(t, node) ==
  (t.deployment[node] * MAX(t.gparams[node].arc_width,
                            t.gparams[node].subtree_arc_width)) \div One

RECURSIVE treev_arrange_recursive(_, _, _, _)
RECURSIVE treev_arrange_children(_, _, _, _)
\* treev_arrange_recursive( ): the first loop, which recurses into the child
\* directories and leaves the arc width of each in its platform.theta
treev_arrange_children(t, kids, subtree_r0, reshape_tree) ==
  IF kids = <<>> THEN t
  ELSE Only({treev_arrange_children(
               [t1 EXCEPT !.gparams[Head(kids)].theta =
                            child_arc_width(t1, Head(kids))],
               Tail(kids), subtree_r0, reshape_tree) :
             t1 \in {treev_arrange_recursive(t, Head(kids), subtree_r0,
                                             reshape_tree)}})

RECURSIVE SumTheta(_, _)
\* subtree_arc_width as the first loop adds it up
SumTheta(t, kids) ==
  IF kids = <<>> THEN 0
  ELSE t.gparams[Head(kids)].theta + SumTheta(t, Tail(kids))

RECURSIVE treev_spread(_, _, _)
\* the second loop with every child placed at the start of its interval
treev_spread_FromEdge(t, kids, theta) ==
  IF kids = <<>> THEN t
  ELSE Only({treev_spread([t EXCEPT !.gparams[Head(kids)].theta = theta],
                          Tail(kids), theta + 2 * arc_width) :
             arc_width \in {t.gparams[Head(kids)].theta}})

\* treev_arrange_recursive( ): the second loop, which spreads the children;
\* theta is the running angle in twentieths of a degree
treev_spread(t, kids, theta) ==
  IF kids = <<>> THEN t
  ELSE Only({treev_spread([t EXCEPT !.gparams[Head(kids)].theta =
                                      theta + arc_width],
                          Tail(kids), theta + 2 * arc_width) :
             arc_width \in {t.gparams[Head(kids)].theta}})

\* treev_arrange_recursive( ) after the first loop: the subtree arc width,
\* the spreading and the flag
treev_arrange_finish(t, dnode) ==
  Only({[treev_spread([t EXCEPT !.gparams[dnode].subtree_arc_width =
                                  subtree_arc_width],
                      TvSubdirs(dnode), -subtree_arc_width)
           EXCEPT !.flags = @ \ {dnode},
                  !.processed = @ \cup {dnode}] :
          subtree_arc_width \in {SumTheta(t, TvSubdirs(dnode))}})

\* treev_arrange_recursive( ) from the first loop on
treev_arrange_subtree(t, dnode, r0, reshape_tree) ==
  Only({treev_arrange_finish(t1, dnode) :
          t1 \in {treev_arrange_children(
                    t, TvSubdirs(dnode),
                    r0 + t.gparams[dnode].depth + TREEV_PLATFORM_SPACING_DEPTH,
                    reshape_tree)}})

\* treev_arrange_recursive( dnode, r0, reshape_tree )
treev_arrange_recursive(t, dnode, r0, reshape_tree) ==
  IF ~reshape_tree /\ dnode \notin t.flags THEN t
  ELSE IF reshape_tree /\ dnode \in TvDirs /\ geometry_treev_is_leaf(t, dnode)
  THEN [t EXCEPT !.a_dlist_stale = @ \cup {dnode}]
  ELSE Only({treev_arrange_subtree(t1, dnode, r0, reshape_tree) :
               t1 \in {IF reshape_tree /\ dnode \in TvDirs
                       THEN treev_reshape_platform(t, dnode, r0)
                       ELSE t}})

\* treev_arrange( ): one adjustment of the core radius and the rearrangement
\* that follows it
treev_rearrange_at(t, radius) ==
  Only({[t1 EXCEPT !.resized = TRUE] :
          t1 \in {treev_arrange_recursive(
                    [t EXCEPT !.treev_core_radius = radius],
                    Metanode, radius, TRUE)}})

RECURSIVE treev_arrange_loop(_)
\* treev_arrange( ): the loop that checks the total arc width
treev_arrange_loop(t) ==
  IF t.gparams[Metanode].subtree_arc_width > TREEV_MAX_ARC_WIDTH
  THEN Only({treev_arrange_loop(t1) :
               t1 \in {treev_rearrange_at(t, (t.treev_core_radius * 5) \div 4)}})
  ELSE IF /\ t.gparams[Metanode].subtree_arc_width < TREEV_MIN_ARC_WIDTH
          /\ t.gparams[Metanode].depth > TREEV_MIN_CORE_RADIUS
  THEN Only({treev_arrange_loop(t1) :
               t1 \in {treev_rearrange_at(
                         t, MAX(TREEV_MIN_CORE_RADIUS,
                                (t.treev_core_radius * 4) \div 5))}})
  ELSE t

\* treev_arrange( initial_arrange ); the correction of a pan under way is in
\* treev_draw_arrange
treev_arrange(t, initial_arrange) ==
  Only({treev_arrange_loop(t1) :
          t1 \in {treev_arrange_recursive(
                    [t EXCEPT !.resized = FALSE, !.processed = {}],
                    Metanode, t.treev_core_radius, initial_arrange)}})

\* treev_init( ) with treev_init_recursive( )
treev_init(t) ==
  treev_arrange(
    [t EXCEPT !.treev_core_radius = TREEV_MIN_CORE_RADIUS,
              !.gparams[Metanode] =
                [theta |-> 180000, depth |-> 0,
                 arc_width |-> TREEV_MAX_ARC_WIDTH,
                 subtree_arc_width |-> @.subtree_arc_width],
              !.gparams["R"].theta = 0,
              !.deployment = [d \in TvDirs |->
                                IF t.expanded[d] THEN One ELSE 0],
              !.a_dlist_stale = TvDirs,
              !.flags = {}],
    TRUE)

\* treev_queue_rearrange( dnode )
treev_queue_rearrange(t, dnode) ==
  [t EXCEPT !.flags = @ \cup {dnode} \cup TvAncestors(dnode)]

\* ------------------------------------------------ building a directory
\* treev_build_dir( ): row_node_count, the number of nodes the row at radius
\* pos_r can take, floor( (arc_len - edge05) / edge15 ) with
\* arc_len = (PI / 180) * pos_r * arc_width - TREEV_PLATFORM_SPACING_WIDTH;
\* the lengths are in thousandths of a unit here
row_node_count(pos_r, arc_width) ==
  ((((pos_r * arc_width) \div 7162) * 125)
     + ((((pos_r * arc_width) % 7162) * 125) \div 7162)
     - (1000 * TREEV_PLATFORM_SPACING_WIDTH) - (500 * TREEV_LEAF_NODE_EDGE))
    \div (1500 * TREEV_LEAF_NODE_EDGE)

\* treev_build_dir( ): one pass of the loop over the rows.  b.left is the
\* number of nodes not placed yet; the inner loop places nodes while
\* n < row_node_count and a node is left
treev_build_row(b) ==
  IF b.left = 0 THEN b
  ELSE Only({[b EXCEPT !.left = @ - laid,
                       !.pos_r = @ + (3 * TREEV_LEAF_NODE_EDGE) \div 2,
                       !.rows = @ + 1,
                       !.laid = @ + laid,
                       !.empty = @ + (IF laid = 0 THEN 1 ELSE 0),
                       !.over = @ + (IF laid > row_node_count(b.pos_r,
                                                              b.arc_width)
                                     THEN 1 ELSE 0)] :
               laid \in {MIN(MAX(row_node_count(b.pos_r, b.arc_width), 0),
                             b.left)}})

RECURSIVE treev_build_span(_, _)
\* 2^k passes of the loop
treev_build_span(b, k) ==
  IF k = 0 THEN treev_build_row(b)
  ELSE Only({treev_build_span(b1, k - 1) :
               b1 \in {treev_build_span(b, k - 1)}})

RECURSIVE treev_build_rows(_)
\* treev_build_dir( ): the loop over the rows, from the inner edge outward
treev_build_rows(b) ==
  IF b.left = 0 THEN b
  ELSE Only({treev_build_rows(b1) : b1 \in {treev_build_span(b, 6)}})

\* treev_build_dir( dnode, r0 ): the leaf nodes are placed row by row, and
\* the platform depth becomes the depth of the rows laid
treev_build_dir(t, dnode, r0) ==
  Only({[t EXCEPT !.built[dnode] =
                    [rows |-> b.rows, laid |-> b.laid, empty |-> b.empty,
                     over |-> b.over],
                  !.shaped_r0[dnode] = 0,
                  !.gparams[dnode].depth =
                    (b.pos_r - (TREEV_LEAF_NODE_EDGE \div 2)) - r0] :
          b \in {treev_build_rows(
                   [left |-> NumChildren[dnode],
                    pos_r |-> r0 + TREEV_LEAF_NODE_EDGE,
                    arc_width |-> t.gparams[dnode].arc_width,
                    rows |-> 0, laid |-> 0, empty |-> 0, over |-> 0])}})

\* DIR_COLLAPSED( dnode ); the metanode is always deployed
TvCollapsed(t, dnode) == dnode \in TvDirs /\ t.deployment[dnode] < Eps

\* treev_draw_recursive( ): display list A of the directory, rebuilt when it
\* is stale
treev_draw_dir(t, dnode, r0) ==
  IF dnode \notin t.a_dlist_stale THEN t
  ELSE [(IF TvCollapsed(t, dnode) THEN t ELSE treev_build_dir(t, dnode, r0))
          EXCEPT !.a_dlist_stale = @ \ {dnode},
                 !.drawn = IF TvCollapsed(t, dnode) THEN @
                           ELSE @ \cup {dnode}]

RECURSIVE treev_draw_recursive(_, _, _)
RECURSIVE treev_draw_children(_, _, _)
\* treev_draw_recursive( ): the recursion into the subdirectories
treev_draw_children(t, kids, subtree_r0) ==
  IF kids = <<>> THEN t
  ELSE Only({treev_draw_children(t1, Tail(kids), subtree_r0) :
               t1 \in {treev_draw_recursive(t, Head(kids), subtree_r0)}})

\* treev_draw_recursive( dnode, prev_r0, r0, action ), the geometry pass
treev_draw_recursive(t, dnode, r0) ==
  Only({[(IF TvCollapsed(t, dnode) THEN t1
          ELSE treev_draw_children(
                 t1, TvSubdirs(dnode),
                 r0 + t1.gparams[dnode].depth + TREEV_PLATFORM_SPACING_DEPTH))
           EXCEPT !.geom_expanded =
                    IF TvCollapsed(t, dnode) THEN @ \ {dnode}
                    ELSE @ \cup {dnode}] :
          t1 \in {treev_draw_dir(t, dnode, r0)}})

\* treev_draw( ): the tree is arranged and then drawn from the metanode
treev_draw(t) ==
  Only({treev_draw_recursive([t1 EXCEPT !.drawn = {}], Metanode,
                             t1.treev_core_radius) :
          t1 \in {treev_arrange(t, FALSE)}})

\* ------------------------------------------------- the layout at work
MaxColexps == 3

\* fsv_set_mode( FSV_TREEV ): geometry_init( ) calls treev_init( )
TreevModeInit ==
  Become([Cur EXCEPT !.treev = [treev_init(treev) EXCEPT !.last_op = "init"]])

\* colexp( ) on a large directory: the directory tree entry changes at once,
\* and geometry_colexp_initiated( ) reshapes a collapsed directory
TreevColexp(dnode) ==
  /\ treev.ncolexp < MaxColexps
  /\ Become([Cur EXCEPT !.treev =
            [(IF treev.deployment[dnode] < Eps
              THEN treev_reshape_platform(
                     treev, dnode, geometry_treev_platform_r0(treev, dnode))
              ELSE treev)
               EXCEPT !.expanded[dnode] = ~@, !.last_op = "colexp",
                      !.ncolexp = @ + 1]])

\* geometry_colexp_in_progress( dnode ) in TreeV mode
geometry_colexp_in_progress(t, dnode) ==
  treev_queue_rearrange(
    [t EXCEPT !.a_dlist_stale =
                IF (dnode \in t.geom_expanded) # (t.deployment[dnode] > Eps)
                THEN @ \cup {dnode} ELSE @],
    dnode)

\* the directories whose deployment is morphing
TvMorphing(t) ==
  {d \in TvDirs : t.deployment[d] # (IF t.expanded[d] THEN One ELSE 0)}

RECURSIVE treev_progress(_, _, _)
\* morph_iteration( ): every deployment under way advances by step, and
\* geometry_colexp_in_progress( ) queues the rearrangement
treev_progress(t, S, step) ==
  IF S = {} THEN t
  ELSE LET d == CHOOSE x \in S : TRUE
       IN treev_progress(
            geometry_colexp_in_progress(
              [t EXCEPT !.deployment[d] =
                          IF t.expanded[d] THEN IF @ + step > One THEN One
                                                ELSE @ + step
                          ELSE IF @ - step < 0 THEN 0 ELSE @ - step],
              d),
            S \ {d}, step)

\* a tick of animation_loop( ) while directories collapse or expand: the
\* deployments advance and treev_draw( ) arranges the tree (the display
\* lists are not rebuilt here)
TreevTick(step) ==
  /\ TvMorphing(treev) # {}
  /\ \E t1 \in {treev_progress(treev, TvMorphing(treev), step)} :
       Become([Cur EXCEPT !.treev =
                 [treev_arrange(t1, FALSE) EXCEPT !.last_op = "tick"]])

ArrangeInit ==
  /\ now = 0
  /\ value = [v \in MorphVars |-> IF v = "R" THEN One ELSE 0]
  /\ morph_queue = <<>>
  /\ schevent_queue = <<>>
  /\ animation_active = FALSE
  /\ need_redraw = FALSE
  /\ fsv_mode = "FSV_TREEV"
  /\ ctree_expanded = [d \in Dirs |-> d = "R"]
  /\ current_node = "R"
  /\ manual_control = FALSE
  /\ camera_currently_moving = FALSE
  /\ scrollbars_colexp_adjust = FALSE
  /\ history = <<>>
  /\ access = TRUE
  /\ fstree_low_draw_stage = 2
  /\ fstree_high_draw_stage = 2
  /\ need_rearrange = FALSE
  /\ \E E \in {{}, {"D2", "D3", "D4", "D5"}, TvLarge} :
       treev = [treev_init([TreevBlank EXCEPT
                              !.expanded = [d \in TvDirs |->
                                              d = "R" \/ d \in E]])
                  EXCEPT !.last_op = "init"]
  /\ mapv = MapvBlank
  /\ obs = ObsInit

ArrangeNext ==
  \/ TreevModeInit
  \/ \E d \in TvLarge : TreevColexp(d)
  \/ \E step \in {One \div 2, One} : TreevTick(step)

ArrangeSpec == ArrangeInit /\ [][ArrangeNext]_vars

\* ------------------------------------------------------- claims: the layout
\* the last operation ran treev_arrange( )
Arranged == treev.last_op \in {"init", "tick"}

\* C19: on return from treev_arrange( ) with the core radius above
\* TREEV_MIN_CORE_RADIUS, the total arc width of the tree lies between
\* TREEV_MIN_ARC_WIDTH and TREEV_MAX_ARC_WIDTH.
C19_ArcWidthWithinBand ==
  (Arranged /\ treev.treev_core_radius > TREEV_MIN_CORE_RADIUS) =>
    /\ treev.gparams[Metanode].subtree_arc_width >= TREEV_MIN_ARC_WIDTH
    /\ treev.gparams[Metanode].subtree_arc_width <= TREEV_MAX_ARC_WIDTH

RECURSIVE WidthBefore(_, _, _)
\* the arc widths of the first i - 1 children added up
WidthBefore(t, kids, i) ==
  IF i <= 1 THEN 0
  ELSE child_arc_width(t, kids[i - 1]) + WidthBefore(t, kids, i - 1)

\* C20: after treev_arrange( ), for every node whose children were spread:
\* the subtree arc width W of the node is the sum of the children's arc
\* widths w_i = deployment_i * max(arc_width_i, subtree_arc_width_i), and the
\* i-th child's interval [theta_i - w_i/2, theta_i + w_i/2] starts at
\* -W/2 + w_1 + ... + w_(i-1): the intervals follow each other in sibling
\* order without gap or overlap from -W/2 to +W/2.
C20_ChildrenSpread ==
  Arranged =>
    \A dnode \in treev.processed :
      LET kids == TvSubdirs(dnode)
      IN /\ treev.gparams[dnode].subtree_arc_width
              = WidthBefore(treev, kids, Len(kids) + 1)
         /\ \A i \in 1..Len(kids) :
              /\ child_arc_width(treev, kids[i]) >= 0
              /\ treev.gparams[kids[i]].theta - child_arc_width(treev, kids[i])
                   = (2 * WidthBefore(treev, kids, i))
                       - treev.gparams[dnode].subtree_arc_width

\* a tick in which the core radius changed and the root directory was spread
\* again, with children of different positive arc widths
C20_Witness ==
  /\ treev.last_op = "tick"
  /\ treev.resized
  /\ {Metanode, "R"} \subseteq treev.processed
  /\ treev.deployment["D1"] = One \div 2
  /\ treev.deployment["D2"] = One
  /\ child_arc_width(treev, "D1") > 0
  /\ child_arc_width(treev, "D2") > child_arc_width(treev, "D1")
  /\ treev.gparams["D2"].theta - child_arc_width(treev, "D2")
       = treev.gparams["D1"].theta + child_arc_width(treev, "D1")

\* ------------------------------------------- the layout drawn frame by frame
\* a tick of animation_loop( ) while directories collapse or expand: the
\* deployments advance, and treev_draw( ) arranges the tree and rebuilds the
\* stale directories
TreevFrame(step) ==
  /\ TvMorphing(treev) # {}
  /\ \E t1 \in {treev_progress(treev, TvMorphing(treev), step)} :
       Become([Cur EXCEPT !.treev =
                 [treev_draw(t1) EXCEPT !.last_op = "tick"]])

\* the first frame of the mode, drawn while nothing morphs
TreevDraw ==
  /\ treev.last_op = "init"
  /\ Become([Cur EXCEPT !.treev =
               [treev_draw(treev) EXCEPT !.last_op = "draw"]])

\* TreeV mode is entered with the small directories expanded in the directory
\* tree, and with none, one or all of the large ones
BuildInit ==
  /\ now = 0
  /\ value = [v \in MorphVars |-> IF v = "R" THEN One ELSE 0]
  /\ morph_queue = <<>>
  /\ schevent_queue = <<>>
  /\ animation_active = FALSE
  /\ need_redraw = FALSE
  /\ fsv_mode = "FSV_TREEV"
  /\ ctree_expanded = [d \in Dirs |-> d = "R"]
  /\ current_node = "R"
  /\ manual_control = FALSE
  /\ camera_currently_moving = FALSE
  /\ scrollbars_colexp_adjust = FALSE
  /\ history = <<>>
  /\ access = TRUE
  /\ fstree_low_draw_stage = 0
  /\ fstree_high_draw_stage = 0
  /\ need_rearrange = FALSE
  /\ \E E \in {{}, {"D1"}, TvLarge} :
       treev = [treev_init([TreevBlank EXCEPT
                              !.expanded = [d \in TvDirs |->
                                              \/ d \in {"R"} \cup TvSmall
                                              \/ d \in E]])
                  EXCEPT !.last_op = "init"]
  /\ mapv = MapvBlank
  /\ obs = ObsInit

BuildNext ==
  \/ TreevModeInit
  \/ TreevDraw
  \/ \E d \in {"D1", "T"} : treev.last_op # "init" /\ TreevColexp(d)
  \/ \E step \in {One \div 2, One} : TreevFrame(step)

BuildSpec == BuildInit /\ [][BuildNext]_vars

\* --------------------------------------------- claims: building directories
\* C21: treev_build_dir( ) places every child of the directory in exactly
\* one row, no row holds more than floor( (arc_len - 0.5*E) / (1.5*E) ) nodes
\* and every row holds at least one, and on return platform.depth is
\* 0.5*E + 1.5*E times the number of rows laid.
C21_RowsFilled ==
  treev.last_op \in {"tick", "draw"} =>
    \A d \in treev.drawn :
      /\ treev.built[d].laid = NumChildren[d]
      /\ treev.built[d].over = 0
      /\ treev.built[d].empty = 0
      /\ treev.gparams[d].depth =
           (TREEV_LEAF_NODE_EDGE \div 2)
             + ((3 * TREEV_LEAF_NODE_EDGE) \div 2) * treev.built[d].rows

\* ------------------------------------------ claims: the loop going idle
\* C24: whenever animation_loop( ) sets animation_active to FALSE, the morph
\* queue and the queue of scheduled events are both empty.
C24_IdleLoopLeavesNothing ==
  [][(animation_active /\ ~animation_active') =>
       (morph_queue' = <<>> /\ schevent_queue' = <<>>)]_vars

\* C25: if morph_finish( v ) is called while v is morphing and
\* morph_full( v, ..., duration d, end_cb ) is requested before the next
\* tick, the completion callback of the new morph runs no earlier than d
\* after the request.
C25_RearmedMorphRunsFull ==
  [][\A r \in obs.rearmed :
       obs'.end_calls[r.data] > obs.end_calls[r.data] => now' >= r.due]_vars

\* C26: after any sequence of morph, morph_full, morph_finish and morph_break
\* calls and ticks, on every update of a stage that does not end it the
\* progress percent = (t_now - t_start) / (t_end - t_start) is at least 0
\* and below 1, so that the value lies between the start and end values of
\* the stage.
C26_PercentWithinUnit == ~obs.percent_out

\* ---------------------------------------------- claims: reshaping a platform
\* the visible length of the outer edge of the platform of d, in thousandths
\* of a unit: (PI / 180) * arc_width * (r0 + depth) less the spacing width
OuterEdge(d) ==
  ((((treev.shaped_r0[d] + treev.gparams[d].depth)
       * treev.gparams[d].arc_width) \div 7162) * 125)
    + (((((treev.shaped_r0[d] + treev.gparams[d].depth)
            * treev.gparams[d].arc_width) % 7162) * 125) \div 7162)
    - (1000 * TREEV_PLATFORM_SPACING_WIDTH)

Reshaped == {d \in TvDirs : treev.shaped_r0[d] > 0}

\* C23 as stated: treev_reshape_platform( d, r0 ) yields platform depth > 0
\* and arc_width >= minimum_arc_width( r0 ), and the visible length of the
\* outer edge equals the depth within tolerance (one eighth of the depth).
C23_SquarePlatform ==
  \A d \in Reshaped :
    /\ treev.gparams[d].depth > 0
    /\ treev.gparams[d].arc_width >= min_arc_width(treev.shaped_r0[d])
    /\ (1000 * treev.gparams[d].depth) - OuterEdge(d)
         <= 125 * treev.gparams[d].depth
    /\ OuterEdge(d) - (1000 * treev.gparams[d].depth)
         <= 125 * treev.gparams[d].depth

\* C23 amended: treev_reshape_platform( d, r0 ) yields platform depth > 0 and
\* arc_width >= minimum_arc_width( r0 ); the depth is rounded up to whole
\* rows after the square platform was solved for, so that the depth exceeds
\* the visible length of the outer edge by more than 0 and by at most
\* 2 * TREEV_LEAF_NODE_EDGE.
C23_PlatformWithinRows ==
  \A d \in Reshaped :
    /\ treev.gparams[d].depth > 0
    /\ treev.gparams[d].arc_width >= min_arc_width(treev.shaped_r0[d])
    /\ (1000 * treev.gparams[d].depth) - OuterEdge(d) > 0
    /\ (1000 * treev.gparams[d].depth) - OuterEdge(d)
         <= 2000 * TREEV_LEAF_NODE_EDGE

\* a large directory, collapsed and expanded again, has just been reshaped,
\* next to the directory of one file with the minimum arc width
C23_Witness ==
  /\ treev.last_op = "colexp"
  /\ {"D1", "T"} \subseteq Reshaped
  /\ treev.gparams["D1"].arc_width > min_arc_width(treev.shaped_r0["D1"])
  /\ treev.gparams["T"].arc_width = min_arc_width(treev.shaped_r0["T"])

\* ================================================ geometry.c: the MapV layout
\* Lengths are in 1/64 of a unit, areas in 1/4096, and scale_factor in 1/512.
RECURSIVE SqrtBetween(_, _, _)
\* the largest r from lo to hi - 1 with r * r <= n
SqrtBetween(n, lo, hi) ==
  IF hi - lo <= 1 THEN lo
  ELSE IF ((lo + hi) \div 2) * ((lo + hi) \div 2) <= n
       THEN SqrtBetween(n, (lo + hi) \div 2, hi)
       ELSE SqrtBetween(n, lo, (lo + hi) \div 2)

\* sqrt( n ), rounded down
FloorSqrt(n) == SqrtBetween(n, 0, 46341)

RECURSIVE SumSeq(_)
SumSeq(q) == IF q = <<>> THEN 0 ELSE Head(q) + SumSeq(Tail(q))

\* mapv_init_recursive( ): dimensions of the top face of the directory, less
\* the side slant (0.032 of a dimension, at most the height 384) and less
\* the nominal border
mapv_dir_dims(w, d) ==
  LET x == w - 2 * MIN(384 * 64, (32 * w) \div 1000)
      y == d - 2 * MIN(384 * 64, (32 * d) \div 1000)
      nominal_border == MIN(FloorSqrt(x * y) \div 100, MIN(x, y) \div 3)
  IN [x |-> x - nominal_border, y |-> y - nominal_border,
      nominal_border |-> nominal_border]

\* the size a node is laid out with
mapv_node_size_Raw(size) == size

mapv_node_size(size) == MAX(256, size)

\* first pass: the area of a block, SQR( sqrt( size ) + nominal_border )
mapv_block_area(size, nominal_border) ==
  (FloorSqrt(4096 * mapv_node_size(size)) + nominal_border)
    * (FloorSqrt(4096 * mapv_node_size(size)) + nominal_border)

\* scale_factor = dir_area / total_block_area
mapv_scale_factor(dir_area, total_block_area) ==
  ((dir_area \div 64) * 512) \div (total_block_area \div 64)

RECURSIVE mapv_rows(_, _, _, _, _)
\* second pass: the first-draft rows.  open tells whether row is not NULL;
\* a block less wide than deep closes its row
mapv_rows(areas, dir_x, i, rows, open) ==
  IF i > Len(areas) THEN rows
  ELSE LET rows1 == IF open THEN rows
                    ELSE Append(rows, [first_block |-> i, area |-> 0])
           row_area == rows1[Len(rows1)].area + areas[i]
           block_y == row_area \div dir_x
           block_x == areas[i] \div block_y
       IN mapv_rows(areas, dir_x, i + 1,
                    [rows1 EXCEPT ![Len(rows1)].area = row_area],
                    ~(block_x < block_y))

\* the row a block was put in
RowOf(rows, i) ==
  CHOOSE r \in 1..Len(rows) :
    /\ rows[r].first_block <= i
    /\ r = Len(rows) \/ rows[r + 1].first_block > i

\* fourth pass: the dimensions of block i
mapv_block_dims(areas, rows, dir_x, i) ==
  [y |-> rows[RowOf(rows, i)].area \div dir_x,
   x |-> areas[i] \div (rows[RowOf(rows, i)].area \div dir_x)]

\* fourth pass: the exact width of the border region of a block, from the
\* scaled area of the node and that of the block
mapv_border(dims, block_area, area) ==
  ((dims.x + dims.y)
     - FloorSqrt((dims.x + dims.y) * (dims.x + dims.y)
                   - 4 * (block_area - area))) \div 4

RECURSIVE RowDepthsBefore(_, _, _)
\* the depths of the rows before row r added up
RowDepthsBefore(rows, dir_x, r) ==
  IF r <= 1 THEN 0
  ELSE (rows[r - 1].area \div dir_x) + RowDepthsBefore(rows, dir_x, r - 1)

RECURSIVE BlockWidthsBefore(_, _, _, _)
\* the widths of the blocks before block i in its row added up
BlockWidthsBefore(areas, rows, dir_x, i) ==
  IF i <= rows[RowOf(rows, i)].first_block THEN 0
  ELSE mapv_block_dims(areas, rows, dir_x, i - 1).x
         + BlockWidthsBefore(areas, rows, dir_x, i - 1)

\* fourth pass: the corners of node i; the rows start at the right/rear
\* corner of the directory
mapv_place(c, dd, scale_factor, sizes, areas, rows, i) ==
  LET dims == mapv_block_dims(areas, rows, dd.x, i)
      border == mapv_border(dims, areas[i],
                            8 * scale_factor * mapv_node_size(sizes[i]))
      pos_x == ((c.c0x + c.c1x) \div 2) + (dd.x \div 2)
                 - BlockWidthsBefore(areas, rows, dd.x, i)
      pos_y == ((c.c0y + c.c1y) \div 2) + (dd.y \div 2)
                 - RowDepthsBefore(rows, dd.x, RowOf(rows, i))
  IN [c0x |-> pos_x - dims.x + border, c0y |-> pos_y - dims.y + border,
      c1x |-> pos_x - border, c1y |-> pos_y - border]

\* mapv_init_recursive( dnode ) on a directory of files with the corners c
mapv_layout(c, dd, sizes, scale_factor) ==
  LET areas == [i \in 1..Len(sizes) |->
                  ((mapv_block_area(sizes[i], dd.nominal_border) \div 64)
                     * scale_factor) \div 8]
      rows == mapv_rows(areas, dd.x, 1, <<>>, FALSE)
  IN [i \in 1..Len(sizes) |->
        mapv_place(c, dd, scale_factor, sizes, areas, rows, i)]

mapv_init_recursive(c, sizes) ==
  IF sizes = <<>> THEN <<>>
  ELSE LET dd == mapv_dir_dims(c.c1x - c.c0x, c.c1y - c.c0y)
       IN mapv_layout(
            c, dd, sizes,
            mapv_scale_factor(
              dd.x * dd.y,
              SumSeq([i \in 1..Len(sizes) |->
                        mapv_block_area(sizes[i], dd.nominal_border)])))

\* mapv_init( ): the root directory gets the area of the whole tree at the
\* aspect ratio 1.2, and its children are laid out
mapv_init(mv) ==
  LET y == FloorSqrt((40960 * (mv.dir_size + SumSeq(mv.sizes))) \div 12)
      x == (12 * y) \div 10
  IN [mv EXCEPT !.geom =
        mapv_init_recursive(
          [c0x |-> -(x \div 2), c0y |-> -(y \div 2),
           c1x |-> x \div 2, c1y |-> y \div 2],
          mv.sizes)]

\* fsv_set_mode( FSV_MAPV ): geometry_init( ) calls mapv_init( )
MapvModeInit ==
  /\ mapv.geom = <<>>
  /\ Become([Cur EXCEPT !.mapv = mapv_init(mapv)])

\* the sizes a file may have, and the child lists of the root directory:
\* two or three files, largest first as scanfs sorts them
FileSizes == {100, 256, 900, 2500, 9000}

MapvInit ==
  /\ now = 0
  /\ value = [v \in MorphVars |-> IF v = "R" THEN One ELSE 0]
  /\ morph_queue = <<>>
  /\ schevent_queue = <<>>
  /\ animation_active = FALSE
  /\ need_redraw = FALSE
  /\ fsv_mode = "FSV_MAPV"
  /\ ctree_expanded = [d \in Dirs |-> d = "R"]
  /\ current_node = "R"
  /\ manual_control = FALSE
  /\ camera_currently_moving = FALSE
  /\ scrollbars_colexp_adjust = FALSE
  /\ history = <<>>
  /\ access = TRUE
  /\ fstree_low_draw_stage = 0
  /\ fstree_high_draw_stage = 0
  /\ need_rearrange = FALSE
  /\ treev = TreevBlank
  /\ \E dir_size \in {1024, 4096} :
       \E n \in 2..3 :
         \E sizes \in [1..n -> FileSizes] :
           /\ \A i \in 1..(n - 1) : sizes[i] >= sizes[i + 1]
           /\ mapv = [dir_size |-> dir_size, sizes |-> sizes, geom |-> <<>>]
  /\ obs = ObsInit

MapvNext == MapvModeInit

MapvSpec == MapvInit /\ [][MapvNext]_vars

\* ------------------------------------------------- claims: the MapV layout
\* the visible footprint area of child i, (c1.x - c0.x) * (c1.y - c0.y)
Footprint(i) ==
  (mapv.geom[i].c1x - mapv.geom[i].c0x) * (mapv.geom[i].c1y - mapv.geom[i].c0y)

\* the footprints of children i and j are in the ratio si : sj, within 1/32
InRatio(i, j, si, sj) ==
  LET x == (Footprint(i) \div 1024) * sj
      y == (Footprint(j) \div 1024) * si
  IN x - y <= y \div 32 /\ y - x <= y \div 32

ValidRectangles ==
  \A i \in 1..Len(mapv.geom) :
    /\ mapv.geom[i].c1x > mapv.geom[i].c0x
    /\ mapv.geom[i].c1y > mapv.geom[i].c0y

\* C22 as stated: for a directory laid out by mapv_init_recursive( ) whose
\* two children have sizes 900 and 100, the footprint areas are in the ratio
\* 900:100 and every footprint is a valid rectangle.
C22_Footprints900To100 ==
  (mapv.geom # <<>> /\ mapv.sizes = <<900, 100>>) =>
    InRatio(1, 2, 900, 100) /\ ValidRectangles

\* C22 amended: for a directory laid out by mapv_init_recursive( ), the
\* footprint areas of any two children are in the ratio of MAX(256, size) of
\* the two (900:256 for sizes 900 and 100), and every footprint is a valid
\* rectangle.
C22_FootprintsBySize ==
  mapv.geom # <<>> =>
    /\ ValidRectangles
    /\ \A i, j \in 1..Len(mapv.geom) :
         InRatio(i, j, MAX(256, mapv.sizes[i]), MAX(256, mapv.sizes[j]))

\* the directory with the files of sizes 900 and 100 has been laid out
C22_Witness ==
  /\ mapv.geom # <<>>
  /\ mapv.sizes = <<900, 100>>
  /\ InRatio(1, 2, 900, 256)

\* =========================================== looking at nodes and going back
MaxLooks == 3
MaxLookClock == 20

\* camera_look_at_previous( )
camera_look_at_previous(s) ==
  IF s.history = <<>> THEN s
  ELSE camera_look_at([s EXCEPT !.history = <<NULL>> \o Tail(@)],
                      Head(s.history))

\* viewport_cb, release of button 1 over the node indicated at the press, and
\* filelist_select_cb / dirtree_select_cb, double click of button 1
LookAtCb(name, node, swing) ==
  /\ obs.nrequests < MaxLooks
  /\ Become(camera_look_at(
              [Handler(name, node, swing, {})
                 EXCEPT !.obs.look_before = <<current_node, history, node>>,
                        !.obs.undone = <<>>],
              node))

\* the node is picked in the viewport while the camera is at rest
ViewportLook(node, swing) ==
  /\ ~camera_currently_moving
  /\ node_drawn(Cur, node)
  /\ LookAtCb("viewport_cb", node, swing)

\* the row of a directory of the tree widget is double-clicked
DirtreeLook(dnode, swing) ==
  /\ RowShown(Cur, dnode)
  /\ LookAtCb("dirtree_select_cb", dnode, swing)

\* on_back_button_clicked: the button is one of the switchable widgets
OnBackButtonClicked(swing) ==
  /\ obs.nrequests < MaxLooks
  /\ access
  /\ Become(camera_look_at_previous(
              [Handler("on_back_button_clicked", NULL, swing, {})
                 EXCEPT !.obs.undone = obs.look_before,
                        !.obs.look_before = <<>>]))

\* dirtree_collapse_cb / dirtree_expand_cb between the looks
LookColexp(dnode, swing) ==
  /\ obs.nrequests < MaxLooks
  /\ RowShown(Cur, dnode)
  /\ \E mesg \in IF dirtree_entry_expanded(Cur, dnode)
                  THEN {"COLEXP_COLLAPSE_RECURSIVE"} ELSE {"COLEXP_EXPAND"} :
       Become(colexp([Handler("dirtree_colexp_cb", dnode, swing, {mesg})
                        EXCEPT !.obs.look_before = <<>>,
                               !.obs.undone = <<>>],
                     dnode, mesg))

LookTick == IdleHandler(MaxLookClock)

\* the program at rest in MapV mode with the camera under its control
LookInit == Init /\ ~manual_control

LookNext ==
  \/ \E n \in Nodes, swing \in BOOLEAN : ViewportLook(n, swing)
  \/ \E d \in Dirs : DirtreeLook(d, FALSE)
  \/ OnBackButtonClicked(FALSE)
  \/ \E d \in Dirs : LookColexp(d, FALSE)
  \/ LookTick

LookSpec == LookInit /\ [][LookNext]_vars

\* C27: camera_look_at_full is only ever invoked on a node whose parent
\* directory is expanded in the directory tree (the assertion of the DEBUG
\* build never fails), whether the target comes from a selection, from the
\* camera handling of colexp or from Back after any collapse/expand requests.
C27_LookAtParentExpanded == ~obs.look_assert_failed

====
